---- MODULE Spec2Model ----
(***************************************************************************)
(* A model of the nwfetch client: the address normalizer, the connection   *)
(* pool (get / remove / closeAll under one mutex), Client construction,    *)
(* Client.Do and Client.Close.  The protocol engine (nwep) is an opaque    *)
(* collaborator: its calls succeed or fail nondeterministically.           *)
(***************************************************************************)
EXTENDS Integers, Sequences, FiniteSets, TLC

(***************************************************************************)
(* Bounds of the model.                                                    *)
(***************************************************************************)
\* Number of goroutines that may call into one Client concurrently.
NumProcs == 2
\* Number of Do calls made on the Client in one run; each dials at most once.
MaxCalls == 3
\* Longest option list handed to NewClient.
MaxOpts == 2
\* Most setter calls made on one Request.
MaxSetters == 3
\* Longest time (in time units) the engine is watched without an answer.
MaxWait == 2
\* Longest free-form text after the scheme given to NormalizeURL.
MaxLen == 6
\* Longest host and longest path of the composed addresses.
MaxPart == 2
\* Longest header list of a reply.
MaxHeaders == 2
\* Clients the package-level Init constructs.
MaxClients == 2
\* Calls of Do made in the runs under the fair scheduler.
FairCalls == 2

Procs == 1..NumProcs
ConnIds == 1..MaxCalls
NoConn == 0
NoProc == 0

(***************************************************************************)
(* Strings are sequences of one-character strings.                         *)
(***************************************************************************)
Scheme == <<"w", "e", "b", ":", "/", "/">>
DefaultPort == <<"6", "9", "3", "7">>

\* strings.HasPrefix
HasPrefix(s, pre) ==
    /\ Len(s) >= Len(pre)
    /\ SubSeq(s, 1, Len(pre)) = pre

\* strings.Index for a one-character needle, 1-based; 0 when absent (Go: -1).
Index(s, ch) ==
    IF \E i \in 1..Len(s) : s[i] = ch
    THEN CHOOSE i \in 1..Len(s) : s[i] = ch /\ \A j \in 1..(i - 1) : s[j] # ch
    ELSE 0

\* s[i:] of Go with a 1-based i.
From(s, i) == SubSeq(s, i, Len(s))

\* An unbracketed branch that keeps the ':' of an empty port out of the
\* result and adds no path.
NormalizeBare_NoPath(rest) ==
    LET slashIdx == Index(rest, "/")
        hostPart == IF slashIdx = 0 THEN rest ELSE SubSeq(rest, 1, slashIdx - 1)
        path     == IF slashIdx = 0 THEN <<>> ELSE From(rest, slashIdx)
        colon    == Index(hostPart, ":")
        host     == IF colon # 0
                    THEN <<"[">> \o SubSeq(hostPart, 1, colon - 1) \o <<"]", ":">>
                         \o From(hostPart, colon + 1)
                    ELSE <<"[">> \o hostPart \o <<"]", ":">> \o DefaultPort
    IN  Scheme \o host \o path

\* The unbracketed branch of NormalizeURL: addr:port/path or addr/path.
NormalizeBare(rest) ==
    LET slashIdx == Index(rest, "/")
        hostPart == IF slashIdx = 0 THEN rest ELSE SubSeq(rest, 1, slashIdx - 1)
        path     == IF slashIdx = 0 THEN <<"/">> ELSE From(rest, slashIdx)
        colon    == Index(hostPart, ":")
        host     == IF colon # 0
                    THEN <<"[">> \o SubSeq(hostPart, 1, colon - 1) \o <<"]", ":">>
                         \o From(hostPart, colon + 1)
                    ELSE <<"[">> \o hostPart \o <<"]", ":">> \o DefaultPort
    IN  Scheme \o host \o path

\* A bracketed branch that returns [addr]/path as it is, without a port.
NormalizeBracketed_NoDefault(raw, rest) ==
    LET end == Index(rest, "]")
        addr == SubSeq(rest, 2, end - 1)
        afterBracket == From(rest, end + 1)
        slashIdx == Index(afterBracket, "/")
    IN  IF end = 0 THEN raw
        ELSE IF Len(afterBracket) = 0
        THEN Scheme \o <<"[">> \o addr \o <<"]", ":">> \o DefaultPort \o <<"/">>
        ELSE IF afterBracket[1] = ":"
        THEN IF slashIdx = 0
             THEN Scheme \o <<"[">> \o addr \o <<"]">> \o afterBracket \o <<"/">>
             ELSE Scheme \o <<"[">> \o addr \o <<"]">>
                  \o SubSeq(afterBracket, 1, slashIdx - 1) \o From(afterBracket, slashIdx)
        ELSE raw

\* The bracketed branch of NormalizeURL: [addr]:port/path or [addr]/path.
NormalizeBracketed(raw, rest) ==
    LET end == Index(rest, "]")
        addr == SubSeq(rest, 2, end - 1)
        afterBracket == From(rest, end + 1)
        slashIdx == Index(afterBracket, "/")
    IN  IF end = 0 THEN raw
        ELSE IF Len(afterBracket) = 0
        THEN Scheme \o <<"[">> \o addr \o <<"]", ":">> \o DefaultPort \o <<"/">>
        ELSE IF afterBracket[1] = ":"
        THEN IF slashIdx = 0
             THEN Scheme \o <<"[">> \o addr \o <<"]">> \o afterBracket \o <<"/">>
             ELSE Scheme \o <<"[">> \o addr \o <<"]">>
                  \o SubSeq(afterBracket, 1, slashIdx - 1) \o From(afterBracket, slashIdx)
        ELSE IF afterBracket[1] = "/"
        THEN Scheme \o <<"[">> \o addr \o <<"]", ":">> \o DefaultPort \o afterBracket
        ELSE raw

\* A normalizer without the bracketed branch.
NormalizeURL_BareOnly(raw) ==
    LET rest == IF HasPrefix(raw, Scheme) THEN From(raw, Len(Scheme) + 1) ELSE raw
    IN  IF Len(rest) = 0 THEN raw
        ELSE NormalizeBare(rest)

\* NormalizeURL: scheme, brackets around the address, and a port.
NormalizeURL(raw) ==
    LET rest == IF HasPrefix(raw, Scheme) THEN From(raw, Len(Scheme) + 1) ELSE raw
    IN  IF Len(rest) = 0 THEN raw
        ELSE IF rest[1] = "[" THEN NormalizeBracketed(raw, rest)
        ELSE NormalizeBare(rest)

(***************************************************************************)
(* The engine's URL parser and address encoder.  The engine accepts the    *)
(* canonical address format web://[host]:port/path; the pool key is the    *)
(* encoding of the parsed address (host and port).                         *)
(***************************************************************************)
NoKey == <<>>

URLParse(s) ==
    LET pre   == Scheme \o <<"[">>
        rest  == IF HasPrefix(s, pre) THEN From(s, Len(pre) + 1) ELSE <<>>
        end   == Index(rest, "]")
        after == IF end = 0 THEN <<>> ELSE From(rest, end + 1)
        slash == Index(after, "/")
    IN  IF /\ HasPrefix(s, pre)
           /\ end > 1
           /\ Len(after) > 0
           /\ after[1] = ":"
           /\ slash > 2
        THEN [ok |-> TRUE,
              Addr |-> <<SubSeq(rest, 1, end - 1), SubSeq(after, 2, slash - 1)>>,
              Path |-> From(after, slash)]
        ELSE [ok |-> FALSE, Addr |-> NoKey, Path |-> <<>>]

\* nwep.AddrEncode: an injective encoding of the server address.
AddrEncode(addr) == addr

(***************************************************************************)
(* The requests of the model: the raw URLs callers pass to Do.             *)
(***************************************************************************)
URLs ==
    { <<"w", "e", "b", ":", "/", "/", "a">>,
      <<"w", "e", "b", ":", "/", "/", "b", "/", "x">>,
      <<"w", "e", "b", ":", "/", "/", "[", "a">> }

Keys == { AddrEncode(URLParse(NormalizeURL(u)).Addr) :
              u \in { v \in URLs : URLParse(NormalizeURL(v)).ok } }

\* A body that is the nil slice.
NoBody == <<"nil">>

\* The engine's nwep.Response.
EngineReply(status, details, headers, body) ==
    [Status |-> status, StatusDetails |-> details, Headers |-> headers,
     Body |-> body]

\* The replies a completed exchange may carry in the runs of the pool.
Replies == {EngineReply("ok", <<>>, <<>>, <<"x">>),
            EngineReply("not_found", <<"d">>, <<>>, NoBody)}

(***************************************************************************)
(* Client construction: options, configuration, identity.                  *)
(***************************************************************************)
\* Keypair objects: nil, the caller's own, the engine's generated one.
NoKP == <<"nil">>
NoSeed == <<"none">>
CallerKeypairs == {<<"caller", "A">>, <<"caller", "B">>}
Seeds == {<<"seed", "A">>, <<"seed", "B">>}
GeneratedKP == <<"generated">>
\* nwep.KeypairFromSeed: the keypair derived from a seed.
KeypairFromSeed(seed) == <<"derived", seed>>

WithKeypair(kp) == [kind |-> "keypair", val |-> kp]
WithSeed(seed) == [kind |-> "seed", val |-> seed]
WithTimeout(d) == [kind |-> "timeout", val |-> d]
WithSettings(s) == [kind |-> "settings", val |-> s]
WithOnNotify(fn) == [kind |-> "onNotify", val |-> fn]
WithPoolSize(n) == [kind |-> "poolSize", val |-> n]

\* The zero clientConfig.
EmptyConfig ==
    [keypair |-> NoKP, seed |-> NoSeed, timeout |-> <<0>>,
     settings |-> <<"nil">>, onNotify |-> <<"nil">>, poolSize |-> <<0>>]

\* One option applied to the configuration: each option sets its own field.
ApplyOption(cfg, o) ==
    CASE o.kind = "keypair"  -> [cfg EXCEPT !.keypair = o.val]
      [] o.kind = "seed"     -> [cfg EXCEPT !.seed = o.val]
      [] o.kind = "timeout"  -> [cfg EXCEPT !.timeout = o.val]
      [] o.kind = "settings" -> [cfg EXCEPT !.settings = o.val]
      [] o.kind = "onNotify" -> [cfg EXCEPT !.onNotify = o.val]
      [] o.kind = "poolSize" -> [cfg EXCEPT !.poolSize = o.val]

\* for _, o := range opts { o(cfg) }
RECURSIVE ApplyOptions(_, _)
ApplyOptions(cfg, opts) ==
    IF opts = <<>> THEN cfg
    ELSE ApplyOptions(ApplyOption(cfg, Head(opts)), Tail(opts))

NoClient == [err |-> TRUE, keypair |-> NoKP, ownsKey |-> FALSE, timeout |-> <<0>>]

\* The identity switch of NewClient; engineOK is the outcome of the engine's
\* keypair generation or derivation.
SelectIdentity(cfg, engineOK) ==
    IF cfg.keypair # NoKP
    THEN [err |-> FALSE, keypair |-> cfg.keypair, ownsKey |-> FALSE]
    ELSE IF cfg.seed # NoSeed
    THEN IF engineOK
         THEN [err |-> FALSE, keypair |-> KeypairFromSeed(cfg.seed), ownsKey |-> TRUE]
         ELSE [err |-> TRUE, keypair |-> NoKP, ownsKey |-> FALSE]
    ELSE IF engineOK
         THEN [err |-> FALSE, keypair |-> GeneratedKP, ownsKey |-> TRUE]
         ELSE [err |-> TRUE, keypair |-> NoKP, ownsKey |-> FALSE]

\* NewClient(opts...): the Client value, or NoClient on error.
NewClient(opts, engineOK) ==
    LET cfg == ApplyOptions(EmptyConfig, opts)
        id  == SelectIdentity(cfg, engineOK)
    IN  IF id.err THEN NoClient
        ELSE [err |-> FALSE, keypair |-> id.keypair, ownsKey |-> id.ownsKey,
              timeout |-> cfg.timeout]

(***************************************************************************)
(* State.                                                                  *)
(***************************************************************************)
VARIABLES
    conns,      \* connPool.conns: key -> connection, NoConn when absent
    mu,         \* connPool.mu: the goroutine holding the lock, or NoProc
    clients,    \* the engine's connection objects (nwep.Client) created so far
    client,     \* the Client value (identity, ownsKey, timeout), or NoClient
    scrubbed,   \* keypair objects whose key material has been cleared
    life,       \* "new", "open", "closing" (Close in flight), "closed", "failed"
    callers,    \* the goroutines that call into the Client in this run
    pc,         \* per goroutine: its position in Do / get / remove / Close,
                \* "off" for a goroutine that does not exist in this run
    url,        \* per goroutine: req.url of the Do in progress
    key,        \* per goroutine: get's key
    mine,       \* per goroutine: the connection created by the get in progress
    got,        \* per goroutine: what its last get returned (conn, key, err)
    removed,    \* per goroutine: the connection remove took out of the map
    snap,       \* per goroutine: closeAll's local conns still to be closed
    result,     \* what Do returned to its caller in the step just taken
    calls,      \* the number of Do calls made so far
    opts        \* the option list handed to NewClient

poolVars == <<conns, mu, clients>>
clientVars == <<client, scrubbed, life, opts>>
procVars == <<pc, url, key, mine, got, removed, snap>>

\* One Request and the Do call made with it.
VARIABLES
    req,        \* the Request under construction (url, method, headers, body,
                \* timeout), NoReq before New
    built,      \* the builder calls made on req so far, in call order
    sent,       \* the arguments Do passed to conn.FetchWithHeaders
    rpc,        \* "none", "building", "connect" (Do blocked in get's dial),
                \* "fetch" (Do blocked in the exchange), "done"
    waited      \* time units Do has been blocked on the engine

\* One address given to NormalizeURL.
VARIABLES
    given,      \* the string passed to NormalizeURL
    parts,      \* how given was written: form, host and path, or NoParts
    once,       \* NormalizeURL(given), NotYet before the call
    twice       \* NormalizeURL of that result, NotYet before the call

\* One reply of the engine and what the caller reads from it.
VARIABLES
    reply,      \* the engine's nwep.Response of the exchange
    response,   \* the *Response Do returned, NoResp before Do returns
    derr,       \* the error Do returned
    class,      \* IsOK, IsSuccess and IsError of the response
    serr,       \* what response.StatusError() returned
    retry       \* what response.RetryAfter() returned

reqVars == <<req, built, sent, rpc, waited>>
normVars == <<given, parts, once, twice>>
\* The package-level default client.
VARIABLES
    defaultClient,  \* the installed client, NoDefault when there is none
    defaultMu,      \* the caller holding defaultMu, NoProc when it is free
    made,           \* client -> "none", "open" (constructed) or "closed"
    fpc,            \* caller -> position in Init, Default or Close
    fcall,          \* caller -> the package function it is in
    floc,           \* caller -> its local c
    fout,           \* caller -> how its last call ended
    lastSet,        \* the last write of defaultClient: by Init or by Close
    fseen           \* caller -> lastSet when Default read defaultClient

\* One request to the HTTP front end.
VARIABLES
    target,     \* the value of the addr query parameter, <<>> when missing
    hrsp        \* what handleRaw wrote to the http.ResponseWriter

respVars == <<reply, response, derr, class, serr, retry>>
facadeVars ==
    <<defaultClient, defaultMu, made, fpc, fcall, floc, fout, lastSet, fseen>>
httpVars == <<target, hrsp>>
auxVars == <<reqVars, normVars, respVars, facadeVars, httpVars>>
coreVars == <<conns, mu, clients, client, scrubbed, life, callers,
              pc, url, key, mine, got, removed, snap, result, calls, opts>>
vars == <<coreVars, auxVars>>
\* Everything but one group of variables.
notReq == <<coreVars, normVars, respVars, facadeVars, httpVars>>
notNorm == <<coreVars, reqVars, respVars, facadeVars, httpVars>>
notResp == <<coreVars, reqVars, normVars, facadeVars, httpVars>>
notFacade == <<coreVars, reqVars, normVars, respVars, httpVars>>
notHTTP == <<coreVars, reqVars, normVars, facadeVars>>

\* A connection object: st is "free" (not created yet), "open" or "closed";
\* dialed records that Connect succeeded on it; closes counts Close calls.
FreeConn == [st |-> "free", addr |-> NoKey, dialed |-> FALSE, closes |-> 0]
NoGet == [conn |-> NoConn, key |-> NoKey, err |-> "nil"]
NoResp == [Status |-> "nil", StatusDetails |-> <<>>, Headers |-> <<>>,
           Body |-> NoBody]
NoErr == [Op |-> "nil", URL |-> <<>>, Err |-> "nil"]
\* The step just taken was not a return of Do.
Pending == [returned |-> FALSE, resp |-> NoResp, err |-> NoErr]

\* The connections stored in the map.
Stored == { conns[k] : k \in Keys } \ {NoConn}
\* Connections that were dialed successfully and are not closed.
Live(k) == { c \in ConnIds : clients[c].st = "open" /\ clients[c].addr = k }
\* The identifier the engine gives its next connection object.
NextConn == CHOOSE c \in ConnIds :
                /\ clients[c].st = "free"
                /\ \A d \in ConnIds : d < c => clients[d].st # "free"

\* c.Close() on connection object c: the object no longer has a peer.
CloseConn(cl, c) ==
    [cl EXCEPT ![c].st = "closed", ![c].addr = NoKey, ![c].closes = @ + 1]

\* An error that reports the normalized address instead of req.url.
TransportError_Normalized(op, u, cause) ==
    [Op |-> op, URL |-> NormalizeURL(u), Err |-> cause]

\* &Error{Op: op, URL: req.url, Err: cause}
TransportError(op, u, cause) == [Op |-> op, URL |-> u, Err |-> cause]
\* responseFromNWEP: the four fields of the engine's reply, copied.
responseFromNWEP(nr) ==
    [Status |-> nr.Status, StatusDetails |-> nr.StatusDetails,
     Headers |-> nr.Headers, Body |-> nr.Body]

(***************************************************************************)
(* The Request builder.                                                    *)
(***************************************************************************)
MethodRead == "read"
MethodWrite == "write"
Methods == {MethodRead, MethodWrite}
\* nwep.Header{Name, Value} pairs; two of them share a name.
Headers == {<<"h", "1">>, <<"h", "2">>, <<"g", "1">>}
\* Request bodies.
Bodies == {NoBody, <<"x">>}
\* time.Duration values, in time units.
Durations == {<<0>>, <<1>>}

NoReq == [url |-> <<>>, method |-> "", headers |-> <<>>, body |-> NoBody,
          timeout |-> <<0>>]
NoSent == [method |-> "", path |-> <<>>, body |-> NoBody, headers |-> <<>>]

\* New(url): &Request{url: url, method: nwep.MethodRead}
New(u) == [url |-> u, method |-> MethodRead, headers |-> <<>>,
           body |-> NoBody, timeout |-> <<0>>]
\* r.method = method
Method(r, m) == [r EXCEPT !.method = m]
\* r.headers = append(r.headers, nwep.Header{Name: name, Value: value})
\* A Header that keeps only the last header.
Header_Replaces(r, h) == [r EXCEPT !.headers = <<h>>]

Header(r, h) == [r EXCEPT !.headers = Append(@, h)]
\* r.body = body
Body(r, b) == [r EXCEPT !.body = b]
\* r.timeout = d
Timeout(r, d) == [r EXCEPT !.timeout = d]

\* The arguments of conn.FetchWithHeaders(req.method, parsed.Path, req.body,
\* req.headers).
FetchArgs(r) ==
    [method |-> r.method, path |-> URLParse(NormalizeURL(r.url)).Path,
     body |-> r.body, headers |-> r.headers]

InitReq ==
    /\ req = NoReq
    /\ built = <<>>
    /\ sent = NoSent
    /\ rpc = "none"
    /\ waited = 0

(***************************************************************************)
(* Responses, status errors and the sentinel predicates.                   *)
(***************************************************************************)
StatusOK == "ok"
SuccessStatuses == {"ok", "created", "accepted", "no_content"}
ErrorStatuses ==
    {"bad_request", "unauthorized", "forbidden", "not_found", "conflict",
     "rate_limited", "internal_error", "unavailable"}

\* nwep.StatusIsSuccess and nwep.StatusIsError.
StatusIsSuccess(st) == st \in SuccessStatuses
StatusIsError(st) == st \in ErrorStatuses

IsOK(r) == r.Status = StatusOK
IsSuccess(r) == StatusIsSuccess(r.Status)
IsError(r) == StatusIsError(r.Status)

\* Error values: nil, a *StatusError, an *Error wrapping an engine error.
NilError == [kind |-> "nil"]
UnsetError == [kind |-> "unset"]

\* A StatusError that leaves the body out.
StatusError_NoBody(r) ==
    IF IsSuccess(r) THEN NilError
    ELSE [kind |-> "status", Status |-> r.Status,
          StatusDetails |-> r.StatusDetails, Body |-> NoBody]

\* Response.StatusError
StatusError(r) ==
    IF IsSuccess(r) THEN NilError
    ELSE [kind |-> "status", Status |-> r.Status,
          StatusDetails |-> r.StatusDetails, Body |-> r.Body]

\* The *Error of Do as an error value; its Err is the engine's error.
ErrorValue(te) ==
    [kind |-> "transport", Op |-> te.Op, URL |-> te.URL,
     Err |-> [kind |-> "engine", cause |-> te.Err]]

\* (*Error).Unwrap; a *StatusError and the engine's errors unwrap to nothing.
Unwrap(e) == IF e.kind = "transport" THEN e.Err ELSE NilError

\* errors.As(err, &se) for se *StatusError: the first *StatusError on the
\* Unwrap chain, NilError when there is none.
RECURSIVE As(_)
As(e) ==
    IF e.kind = "status" THEN e
    ELSE IF e.kind = "transport" THEN As(Unwrap(e))
    ELSE NilError

\* A hasStatus that does not compare the status.
hasStatus_AnyStatus(e, status) == As(e).kind = "status"

hasStatus(e, status) ==
    LET se == As(e)
    IN  se.kind = "status" /\ se.Status = status

IsBadRequest(e) == hasStatus(e, "bad_request")
IsUnauthorized(e) == hasStatus(e, "unauthorized")
IsForbidden(e) == hasStatus(e, "forbidden")
IsNotFound(e) == hasStatus(e, "not_found")
IsConflict(e) == hasStatus(e, "conflict")
IsRateLimited(e) == hasStatus(e, "rate_limited")
IsInternalError(e) == hasStatus(e, "internal_error")
IsUnavailable(e) == hasStatus(e, "unavailable")

\* Response.Header: the value of the first header named name.
ResponseHeader(r, name) ==
    LET at == {i \in 1..Len(r.Headers) : r.Headers[i][1] = name}
    IN  IF at = {} THEN [v |-> <<>>, found |-> FALSE]
        ELSE [v |-> r.Headers[CHOOSE i \in at : \A j \in at : i <= j][2],
              found |-> TRUE]

\* Decimal numbers are sequences of digit characters.
DigitChars == <<"0", "1", "2", "3", "4", "5", "6", "7", "8", "9">>
IsDigit(c) == \E i \in 1..Len(DigitChars) : DigitChars[i] = c
DigitRank(c) == CHOOSE i \in 1..Len(DigitChars) : DigitChars[i] = c

RECURSIVE StripZeros(_)
StripZeros(d) ==
    IF Len(d) > 1 /\ d[1] = "0" THEN StripZeros(Tail(d)) ELSE d

\* a <= b for numbers without leading zeros.
RECURSIVE LexLeq(_, _)
LexLeq(a, b) ==
    IF a = <<>> THEN TRUE
    ELSE IF a[1] # b[1] THEN DigitRank(a[1]) < DigitRank(b[1])
    ELSE LexLeq(Tail(a), Tail(b))
Leq(a, b) == Len(a) < Len(b) \/ (Len(a) = Len(b) /\ LexLeq(a, b))

\* The largest int (64 bits), and the largest number of seconds whose
\* product with time.Second (10^9 nanoseconds) is still an int64.
MaxInt == <<"9", "2", "2", "3", "3", "7", "2", "0", "3", "6", "8", "5", "4",
            "7", "7", "5", "8", "0", "7">>
MaxSeconds == <<"9", "2", "2", "3", "3", "7", "2", "0", "3", "6">>

\* strconv.Atoi: an optional sign and one or more digits, within int's range.
Atoi(v) ==
    LET signed == Len(v) > 0 /\ v[1] \in {"+", "-"}
        digits == IF signed THEN Tail(v) ELSE v
        mag == StripZeros(digits)
    IN  IF \/ Len(digits) = 0
           \/ \E i \in 1..Len(digits) : ~IsDigit(digits[i])
           \/ ~Leq(mag, MaxInt)
        THEN [err |-> TRUE, neg |-> FALSE, mag |-> <<"0">>]
        ELSE [err |-> FALSE, neg |-> signed /\ v[1] = "-" /\ mag # <<"0">>,
              mag |-> mag]

\* time.Duration(secs) * time.Second in int64 nanoseconds: secs seconds, or,
\* when the product wraps around, some other value.
Seconds(mag) == [secs |-> mag, wrapped |-> ~Leq(mag, MaxSeconds)]
NoDuration == [secs |-> <<"0">>, wrapped |-> FALSE]

\* Response.RetryAfter
RetryAfter(r) ==
    LET h == ResponseHeader(r, "retry-after")
        secs == Atoi(h.v)
    IN  IF ~h.found THEN [d |-> NoDuration, ok |-> FALSE]
        ELSE IF secs.err \/ secs.neg THEN [d |-> NoDuration, ok |-> FALSE]
        ELSE [d |-> Seconds(secs.mag), ok |-> TRUE]

NoClass == [ok |-> FALSE, success |-> FALSE, error |-> FALSE, set |-> FALSE]
NoRetry == [d |-> NoDuration, ok |-> FALSE, set |-> FALSE]

InitResp ==
    /\ reply = EngineReply("nil", <<>>, <<>>, NoBody)
    /\ response = NoResp
    /\ derr = UnsetError
    /\ class = NoClass
    /\ serr = UnsetError
    /\ retry = NoRetry

\* The characters of the addresses of the model.
Alphabet == {"a", ":", "/", "[", "]"}
Strings(n) == UNION {[1..k -> Alphabet] : k \in 0..n}
NotYet == <<"?">>
NoParts == [form |-> "free", host |-> <<>>, path |-> <<>>]

\* The nil *Client.
NoDefault == 0
ClientIds == 1..MaxClients

InitFacade ==
    /\ defaultClient = NoDefault
    /\ defaultMu = NoProc
    /\ made = [i \in ClientIds |-> "none"]
    /\ fpc = [p \in Procs |-> "idle"]
    /\ fcall = [p \in Procs |-> "none"]
    /\ floc = [p \in Procs |-> NoDefault]
    /\ fout = [p \in Procs |-> "none"]
    /\ lastSet = "none"
    /\ fseen = [p \in Procs |-> "none"]

InitNorm ==
    /\ given = <<>>
    /\ parts = NoParts
    /\ once = NotYet
    /\ twice = NotYet

(***************************************************************************)
(* The HTTP front end: handleRaw.                                          *)
(***************************************************************************)
TextPlain == <<"text/plain; charset=utf-8">>
NoHTTP == [code |-> 0, ctype |-> <<>>, msg |-> "", about |-> <<>>,
           status |-> "", detail |-> <<>>, body |-> NoBody]

\* http.Error(w, msg, code): a text/plain response with the code and the
\* message; about, status and detail are what the message is formatted from.
HTTPError(code, msg, about, status, detail) ==
    [code |-> code, ctype |-> TextPlain, msg |-> msg, about |-> about,
     status |-> status, detail |-> detail, body |-> NoBody]

\* A handleRaw that never relays the upstream content type.
handleRaw_AlwaysPlain(t, rsp, e) ==
    IF t = <<>>
    THEN HTTPError(400, "missing ?addr= parameter", <<>>, "", <<>>)
    ELSE IF e # NilError
    THEN HTTPError(502, "Unable to reach", t, "", <<>>)
    ELSE IF StatusError(rsp) # NilError
    THEN HTTPError(502, "upstream error", <<>>, rsp.Status, rsp.StatusDetails)
    ELSE [code |-> 200, ctype |-> TextPlain, msg |-> "", about |-> <<>>,
          status |-> "", detail |-> <<>>, body |-> rsp.Body]

\* handleRaw, given the addr parameter and what client.Get(target) returned
\* (nothing is read of rsp and e when the parameter is missing).
handleRaw(t, rsp, e) ==
    LET ct == ResponseHeader(rsp, "content-type")
    IN  IF t = <<>>
        THEN HTTPError(400, "missing ?addr= parameter", <<>>, "", <<>>)
        ELSE IF e # NilError
        THEN HTTPError(502, "Unable to reach", t, "", <<>>)
        ELSE IF StatusError(rsp) # NilError
        THEN HTTPError(502, "upstream error", <<>>, rsp.Status,
                       rsp.StatusDetails)
        ELSE [code |-> 200,
              ctype |-> IF ct.found /\ ct.v # <<>> THEN ct.v ELSE TextPlain,
              msg |-> "", about |-> <<>>, status |-> "", detail |-> <<>>,
              body |-> rsp.Body]

InitHTTP ==
    /\ target = <<>>
    /\ hrsp = NoHTTP

InitAux == InitReq /\ InitNorm /\ InitResp /\ InitFacade /\ InitHTTP

(***************************************************************************)
(* Initial states.                                                         *)
(***************************************************************************)
InitPool ==
    /\ conns = [k \in Keys |-> NoConn]
    /\ mu = NoProc
    /\ clients = [c \in ConnIds |-> FreeConn]

InitCallers(n) ==
    /\ callers = 1..n
    /\ pc = [p \in Procs |-> IF p \in callers THEN "idle" ELSE "off"]
    /\ url = [p \in Procs |-> <<>>]
    /\ key = [p \in Procs |-> NoKey]
    /\ mine = [p \in Procs |-> NoConn]
    /\ got = [p \in Procs |-> NoGet]
    /\ removed = [p \in Procs |-> NoConn]
    /\ snap = [p \in Procs |-> {}]
    /\ result = Pending
    /\ calls = 0

InitProcs == \E n \in Procs : InitCallers(n)

\* The program's own construction: NewClient(WithTimeout(3 * time.Second)).
Init ==
    /\ InitPool
    /\ InitProcs
    /\ InitAux
    /\ opts = <<WithTimeout(<<3>>)>>
    /\ client = NewClient(opts, TRUE)
    /\ scrubbed = {}
    /\ life = "open"

(***************************************************************************)
(* Client.Do: parse, pool.get, exchange, and remove on failure.            *)
(***************************************************************************)
\* nwep.URLParse(NormalizeURL(req.url))
Parsed(u) == URLParse(NormalizeURL(u))

\* A step that is not a return of Do.
NoReturn == result' = Pending

\* Do returns to its caller: its locals and those of get and remove die.
Return(p, resp, err) ==
    /\ result' = [returned |-> TRUE, resp |-> resp, err |-> err]
    /\ pc' = [pc EXCEPT ![p] = "idle"]
    /\ url' = [url EXCEPT ![p] = <<>>]
    /\ key' = [key EXCEPT ![p] = NoKey]
    /\ mine' = [mine EXCEPT ![p] = NoConn]
    /\ removed' = [removed EXCEPT ![p] = NoConn]
    /\ got' = [got EXCEPT ![p] = NoGet]

\* Do returns (nil, &Error{Op: op, URL: req.url, Err: cause}).
ReturnError(p, op, cause) ==
    Return(p, NoResp, TransportError(op, url[p], cause))

\* get returns (nil, "", err) and Do wraps it as a connect error.
GetFails(p, cause) == ReturnError(p, "connect", cause)

\* Do is called with a request for u: the address is normalized and parsed,
\* get computes its key with nwep.AddrEncode(&u.Addr) and takes the lock.
DoParse(p, u) ==
    /\ pc[p] = "idle"
    /\ life \in {"open", "closing"}
    /\ calls < MaxCalls
    /\ calls' = calls + 1
    /\ \/ /\ ~Parsed(u).ok
          /\ result' = [returned |-> TRUE, resp |-> NoResp,
                        err |-> TransportError("parse", u, "ErrParse")]
          /\ UNCHANGED <<pc, url, key, mu>>
       \/ /\ Parsed(u).ok
          /\ result' = [returned |-> TRUE, resp |-> NoResp,
                        err |-> TransportError("connect", u, "ErrEncode")]
          /\ UNCHANGED <<pc, url, key, mu>>
       \/ /\ Parsed(u).ok
          /\ mu = NoProc
          /\ mu' = p
          /\ url' = [url EXCEPT ![p] = u]
          /\ key' = [key EXCEPT ![p] = AddrEncode(Parsed(u).Addr)]
          /\ NoReturn
          /\ pc' = [pc EXCEPT ![p] = "get_check1"]
    /\ UNCHANGED <<conns, clients, clientVars, callers, auxVars, mine, got, removed, snap>>

\* p.mu.Lock()
Lock(p, at, next) ==
    /\ pc[p] = at
    /\ mu = NoProc
    /\ mu' = p
    /\ pc' = [pc EXCEPT ![p] = next]
    /\ NoReturn
    /\ UNCHANGED <<conns, clients, clientVars, callers, auxVars,
                   url, key, mine, got, removed, snap, calls>>

\* A get that never reuses: it dials even when the map has an entry.
GetCheck1_AlwaysDial(p) ==
    /\ pc[p] = "get_check1"
    /\ mu' = NoProc
    /\ pc' = [pc EXCEPT ![p] = "get_dial"]
    /\ NoReturn
    /\ UNCHANGED <<conns, clients, clientVars, callers, auxVars, url, key, mine, got,
                   removed, snap, calls>>

\* A get whose miss path goes on to dial without unlocking.
GetCheck1_KeepsLock(p) ==
    /\ pc[p] = "get_check1"
    /\ \/ /\ conns[key[p]] # NoConn
          /\ mu' = NoProc
          /\ got' = [got EXCEPT ![p] =
                         [conn |-> conns[key[p]], key |-> key[p], err |-> "nil"]]
          /\ pc' = [pc EXCEPT ![p] = "fetch"]
       \/ /\ conns[key[p]] = NoConn
          /\ mu' = mu
          /\ got' = got
          /\ pc' = [pc EXCEPT ![p] = "get_dial"]
    /\ NoReturn
    /\ UNCHANGED <<conns, clients, clientVars, callers, auxVars, url, key, mine,
                   removed, snap, calls>>

\* get: the first look at the map, under the lock.
GetCheck1(p) ==
    /\ pc[p] = "get_check1"
    /\ mu' = NoProc
    /\ \/ /\ conns[key[p]] # NoConn
          /\ got' = [got EXCEPT ![p] =
                         [conn |-> conns[key[p]], key |-> key[p], err |-> "nil"]]
          /\ pc' = [pc EXCEPT ![p] = "fetch"]
       \/ /\ conns[key[p]] = NoConn
          /\ got' = got
          /\ pc' = [pc EXCEPT ![p] = "get_dial"]
    /\ NoReturn
    /\ UNCHANGED <<conns, clients, clientVars, callers, auxVars, url, key, mine,
                   removed, snap, calls>>

\* A dial that registers its connection object in the map before connecting
\* and leaves it there when the connect fails.
GetDial_StoresFirst(p) ==
    /\ pc[p] = "get_dial"
    /\ \/ /\ clients' = [clients EXCEPT ![NextConn] =
                             [st |-> "open", addr |-> key[p],
                              dialed |-> TRUE, closes |-> 0]]
          /\ mine' = [mine EXCEPT ![p] = NextConn]
          /\ pc' = [pc EXCEPT ![p] = "get_lock2"]
          /\ conns' = conns
          /\ NoReturn
          /\ UNCHANGED <<url, key, got, removed>>
       \/ /\ clients' = [clients EXCEPT ![NextConn] =
                             [st |-> "closed", addr |-> NoKey,
                              dialed |-> FALSE, closes |-> 1]]
          /\ conns' = [conns EXCEPT ![key[p]] = NextConn]
          /\ GetFails(p, "ErrConnect")
    /\ UNCHANGED <<mu, clientVars, callers, auxVars, snap, calls>>

\* get, outside the lock: nwep.NewClient, nwep.URLFormat and c.Connect.  A
\* failure after the client object exists closes that object.
GetDial(p) ==
    /\ pc[p] = "get_dial"
    /\ \/ /\ clients' = [clients EXCEPT ![NextConn] =
                             [st |-> "open", addr |-> key[p],
                              dialed |-> TRUE, closes |-> 0]]
          /\ mine' = [mine EXCEPT ![p] = NextConn]
          /\ pc' = [pc EXCEPT ![p] = "get_lock2"]
          /\ NoReturn
          /\ UNCHANGED <<url, key, got, removed>>
       \/ /\ GetFails(p, "ErrNewClient")
          /\ clients' = clients
       \/ \E cause \in {"ErrFormat", "ErrConnect"} :
              /\ clients' = [clients EXCEPT ![NextConn] =
                                 [st |-> "closed", addr |-> NoKey,
                                  dialed |-> FALSE, closes |-> 1]]
              /\ GetFails(p, cause)
    /\ UNCHANGED <<conns, mu, clientVars, callers, auxVars, snap, calls>>

GetLock2(p) == Lock(p, "get_lock2", "get_check2")

\* A get without the re-check: it stores its own connection unconditionally.
GetCheck2_NoRecheck(p) ==
    /\ pc[p] = "get_check2"
    /\ mu' = NoProc
    /\ conns' = [conns EXCEPT ![key[p]] = mine[p]]
    /\ got' = [got EXCEPT ![p] =
                   [conn |-> mine[p], key |-> key[p], err |-> "nil"]]
    /\ pc' = [pc EXCEPT ![p] = "fetch"]
    /\ NoReturn
    /\ UNCHANGED <<clients, clientVars, callers, auxVars, url, key, mine, removed,
                   snap, calls>>

\* get: the second look at the map; the winner stores, the loser keeps existing.
GetCheck2(p) ==
    /\ pc[p] = "get_check2"
    /\ mu' = NoProc
    /\ \/ /\ conns[key[p]] # NoConn
          /\ got' = [got EXCEPT ![p] =
                         [conn |-> conns[key[p]], key |-> key[p], err |-> "nil"]]
          /\ pc' = [pc EXCEPT ![p] = "get_discard"]
          /\ conns' = conns
       \/ /\ conns[key[p]] = NoConn
          /\ conns' = [conns EXCEPT ![key[p]] = mine[p]]
          /\ got' = [got EXCEPT ![p] =
                         [conn |-> mine[p], key |-> key[p], err |-> "nil"]]
          /\ pc' = [pc EXCEPT ![p] = "fetch"]
    /\ NoReturn
    /\ UNCHANGED <<clients, clientVars, callers, auxVars, url, key, mine, removed,
                   snap, calls>>

\* A loser that returns the existing connection without closing its own.
GetDiscard_NoClose(p) ==
    /\ pc[p] = "get_discard"
    /\ pc' = [pc EXCEPT ![p] = "fetch"]
    /\ NoReturn
    /\ UNCHANGED <<conns, mu, clients, clientVars, callers, auxVars, url, key, mine,
                   got, removed, snap, calls>>

\* get: the loser closes its own connection and returns the existing one.
GetDiscard(p) ==
    /\ pc[p] = "get_discard"
    /\ clients' = CloseConn(clients, mine[p])
    /\ pc' = [pc EXCEPT ![p] = "fetch"]
    /\ NoReturn
    /\ UNCHANGED <<conns, mu, clientVars, callers, auxVars, url, key, mine, got,
                   removed, snap, calls>>

\* Do: the exchange completes with a protocol status (of any class).
FetchReply(p) ==
    /\ pc[p] = "fetch"
    /\ clients[got[p].conn].st = "open"
    /\ \E nr \in Replies : Return(p, responseFromNWEP(nr), NoErr)
    /\ UNCHANGED <<poolVars, clientVars, callers, auxVars, snap, calls>>

\* Do: the exchange fails; Do calls c.pool.remove(key), which takes the lock.
FetchFails(p) == Lock(p, "fetch", "rm_check")

\* A remove that closes the connection but leaves its entry in the map.
RemoveCheck_KeepsEntry(p) ==
    /\ pc[p] = "rm_check"
    /\ mu' = NoProc
    /\ \/ /\ conns[got[p].key] # NoConn
          /\ removed' = [removed EXCEPT ![p] = conns[got[p].key]]
          /\ pc' = [pc EXCEPT ![p] = "rm_close"]
          /\ NoReturn
          /\ UNCHANGED <<url, key, mine, got>>
       \/ /\ conns[got[p].key] = NoConn
          /\ ReturnError(p, "fetch", "ErrFetch")
    /\ UNCHANGED <<conns, clients, clientVars, callers, auxVars, snap, calls>>

\* A remove that empties the whole map when its key is present.
RemoveCheck_ClearsMap(p) ==
    /\ pc[p] = "rm_check"
    /\ mu' = NoProc
    /\ \/ /\ conns[got[p].key] # NoConn
          /\ removed' = [removed EXCEPT ![p] = conns[got[p].key]]
          /\ conns' = [k \in Keys |-> NoConn]
          /\ pc' = [pc EXCEPT ![p] = "rm_close"]
          /\ NoReturn
          /\ UNCHANGED <<url, key, mine, got>>
       \/ /\ conns[got[p].key] = NoConn
          /\ ReturnError(p, "fetch", "ErrFetch")
          /\ conns' = conns
    /\ UNCHANGED <<clients, clientVars, callers, auxVars, snap, calls>>

\* remove: delete the entry under key if present; absent is a no-op.
RemoveCheck(p) ==
    /\ pc[p] = "rm_check"
    /\ mu' = NoProc
    /\ \/ /\ conns[got[p].key] # NoConn
          /\ removed' = [removed EXCEPT ![p] = conns[got[p].key]]
          /\ conns' = [conns EXCEPT ![got[p].key] = NoConn]
          /\ pc' = [pc EXCEPT ![p] = "rm_close"]
          /\ NoReturn
          /\ UNCHANGED <<url, key, mine, got>>
       \/ /\ conns[got[p].key] = NoConn
          /\ ReturnError(p, "fetch", "ErrFetch")
          /\ conns' = conns
    /\ UNCHANGED <<clients, clientVars, callers, auxVars, snap, calls>>

\* remove: c.Close() outside the lock; Do then returns the fetch error.
RemoveClose(p) ==
    /\ pc[p] = "rm_close"
    /\ clients' = CloseConn(clients, removed[p])
    /\ ReturnError(p, "fetch", "ErrFetch")
    /\ UNCHANGED <<conns, mu, clientVars, callers, auxVars, snap, calls>>

(***************************************************************************)
(* Client.Close: closeAll, then clear an owned keypair.                    *)
(***************************************************************************)
\* Close is called (once per Client); closeAll takes the lock.
CloseStart(p) ==
    /\ pc[p] = "idle"
    /\ life = "open"
    /\ life' = "closing"
    /\ mu = NoProc
    /\ mu' = p
    /\ pc' = [pc EXCEPT ![p] = "ca_swap"]
    /\ NoReturn
    /\ UNCHANGED <<conns, clients, client, scrubbed, opts, callers, auxVars,
                   url, key, mine, got, removed, snap, calls>>

\* A closeAll that takes its snapshot but leaves the entries in the map.
CloseAllSwap_KeepsMap(p) ==
    /\ pc[p] = "ca_swap"
    /\ snap' = [snap EXCEPT ![p] = Stored]
    /\ mu' = NoProc
    /\ pc' = [pc EXCEPT ![p] = "ca_close"]
    /\ NoReturn
    /\ UNCHANGED <<conns, clients, clientVars, callers, auxVars, url, key, mine, got,
                   removed, calls>>

\* closeAll: conns := p.conns; p.conns = make(map[string]*nwep.Client);
\* p.mu.Unlock()
CloseAllSwap(p) ==
    /\ pc[p] = "ca_swap"
    /\ snap' = [snap EXCEPT ![p] = Stored]
    /\ conns' = [k \in Keys |-> NoConn]
    /\ mu' = NoProc
    /\ pc' = [pc EXCEPT ![p] = "ca_close"]
    /\ NoReturn
    /\ UNCHANGED <<clients, clientVars, callers, auxVars, url, key, mine, got,
                   removed, calls>>

\* closeAll: for _, c := range conns { c.Close() }, one connection per step.
CloseAllClose(p) ==
    /\ pc[p] = "ca_close"
    /\ \E c \in snap[p] :
           /\ clients' = CloseConn(clients, c)
           /\ snap' = [snap EXCEPT ![p] = @ \ {c}]
    /\ NoReturn
    /\ UNCHANGED <<conns, mu, clientVars, callers, auxVars, pc, url, key, mine, got,
                   removed, calls>>

\* A Close that clears the keypair whether or not the Client owns it.
CloseClear_Always(p) ==
    /\ pc[p] = "ca_close"
    /\ snap[p] = {}
    /\ scrubbed' = IF client.keypair # NoKP
                   THEN scrubbed \cup {client.keypair}
                   ELSE scrubbed
    /\ life' = "closed"
    /\ pc' = [pc EXCEPT ![p] = "idle"]
    /\ NoReturn
    /\ UNCHANGED <<poolVars, client, opts, callers, auxVars, url, key, mine, got,
                   removed, snap, calls>>

\* Close: if c.ownsKey && c.keypair != nil { c.keypair.Clear() }
CloseClear(p) ==
    /\ pc[p] = "ca_close"
    /\ snap[p] = {}
    /\ scrubbed' = IF client.ownsKey /\ client.keypair # NoKP
                   THEN scrubbed \cup {client.keypair}
                   ELSE scrubbed
    /\ life' = "closed"
    /\ pc' = [pc EXCEPT ![p] = "idle"]
    /\ NoReturn
    /\ UNCHANGED <<poolVars, client, opts, callers, auxVars, url, key, mine, got,
                   removed, snap, calls>>

(***************************************************************************)
(* Specifications.                                                         *)
(***************************************************************************)
Get(p) ==
    \/ GetCheck1(p) \/ GetDial(p)
    \/ GetLock2(p) \/ GetCheck2(p) \/ GetDiscard(p)

Remove(p) == RemoveCheck(p) \/ RemoveClose(p)

Close(p) ==
    \/ CloseStart(p) \/ CloseAllSwap(p)
    \/ CloseAllClose(p) \/ CloseClear(p)

\* Concurrent Do and Close calls on one Client.
Next ==
    \E p \in Procs :
        \/ \E u \in URLs : DoParse(p, u)
        \/ Get(p)
        \/ FetchReply(p)
        \/ FetchFails(p)
        \/ Remove(p)
        \/ Close(p)

Spec == Init /\ [][Next]_vars

\* Concurrent Do calls whose exchanges all complete: get is the only pool
\* operation that ever runs (no remove, no closeAll).
NextGet ==
    \E p \in Procs :
        \/ \E u \in URLs : DoParse(p, u)
        \/ Get(p)
        \/ FetchReply(p)

SpecGet == Init /\ [][NextGet]_vars

\* The steps of the pool operations that need no lock to be taken: the steps
\* made while holding the lock, the dial and the closes.  A goroutine that is
\* at one of them can always take it, the engine's dial and close return, and
\* the scheduler runs every runnable goroutine.
PoolStep(p) ==
    \/ GetCheck1(p) \/ GetDial(p) \/ GetCheck2(p) \/ GetDiscard(p)
    \/ RemoveCheck(p) \/ RemoveClose(p)
    \/ CloseAllSwap(p) \/ CloseAllClose(p) \/ CloseClear(p)

\* p.mu.Lock() of a goroutine that is inside a pool operation: sync.Mutex
\* hands the lock to a waiter that has been passed over (starvation mode), so
\* a Lock that can be taken again and again is taken.
Fairness ==
    \A p \in Procs :
        /\ WF_vars(PoolStep(p))
        /\ SF_vars(GetLock2(p))

\* Two goroutines share the Client.
InitFair == Init /\ Cardinality(callers) = 2

\* Concurrent Do and Close calls on one Client, at most FairCalls calls of Do.
NextFair ==
    \E p \in Procs :
        \/ \E u \in URLs : calls < FairCalls /\ DoParse(p, u)
        \/ Get(p)
        \/ FetchReply(p)
        \/ FetchFails(p)
        \/ Remove(p)
        \/ Close(p)

\* Two callers of Do and Close on one Client under a fair scheduler.
SpecFair == InitFair /\ [][NextFair]_vars /\ Fairness

\* Client construction from an option list, followed by Close.
Options ==
    {WithKeypair(kp) : kp \in CallerKeypairs \cup {NoKP}}
        \cup {WithSeed(sd) : sd \in Seeds}
        \cup {WithTimeout(<<3>>)}

OptLists == UNION {[1..n -> Options] : n \in 0..MaxOpts}

InitClient ==
    /\ InitPool
    /\ InitProcs
    /\ InitAux
    /\ opts \in OptLists
    /\ client = NoClient
    /\ scrubbed = {}
    /\ life = "new"

\* NewClient(opts...) is called; the engine's key generation or derivation
\* succeeds or fails.
Construct ==
    /\ life = "new"
    /\ \E engineOK \in BOOLEAN :
           /\ client' = NewClient(opts, engineOK)
           /\ life' = IF client'.err THEN "failed" ELSE "open"
    /\ NoReturn
    /\ UNCHANGED <<poolVars, scrubbed, opts, callers, auxVars, procVars, calls>>

\* No Do is made here, so closeAll swaps out an empty map.
NextClient ==
    \/ Construct
    \/ \E p \in Procs : CloseStart(p) \/ CloseAllSwap(p) \/ CloseClear(p)

SpecClient == InitClient /\ [][NextClient]_vars

(***************************************************************************)
(* One Request: built, handed to Do, and waiting on the engine.            *)
(***************************************************************************)
\* URLs that parse: the Do of this section gets as far as the exchange.
GoodURLs == {u \in URLs : URLParse(NormalizeURL(u)).ok}

Call(fn, arg) == [call |-> fn, arg |-> arg]

\* nwfetch.New(u)
ReqNew(u) ==
    /\ rpc = "none"
    /\ req' = New(u)
    /\ built' = <<Call("New", u)>>
    /\ rpc' = "building"
    /\ UNCHANGED <<sent, waited, notReq>>

\* One setter call on the Request.
ReqSetter(fn, arg, r) ==
    /\ rpc = "building"
    /\ Len(built) <= MaxSetters
    /\ req' = r
    /\ built' = Append(built, Call(fn, arg))
    /\ UNCHANGED <<sent, rpc, waited, notReq>>

ReqMethod(m) == ReqSetter("Method", m, Method(req, m))
ReqHeader(h) == ReqSetter("Header", h, Header(req, h))
ReqBody(b) == ReqSetter("Body", b, Body(req, b))
ReqTimeout(d) == ReqSetter("Timeout", d, Timeout(req, d))

\* Do(req) with the built Request: the address parses and get starts to dial.
DoWith ==
    /\ rpc = "building"
    /\ rpc' = "connect"
    /\ built' = Append(built, Call("Do", <<>>))
    /\ UNCHANGED <<req, sent, waited, notReq>>

\* Client.Get(url): c.Do(New(url))
ClientGet(u) ==
    /\ rpc = "none"
    /\ req' = New(u)
    /\ built' = <<Call("Get", u)>>
    /\ rpc' = "connect"
    /\ UNCHANGED <<sent, waited, notReq>>

\* Client.Post(url, body): c.Do(New(url).Method(nwep.MethodWrite).Body(body))
ClientPost(u, b) ==
    /\ rpc = "none"
    /\ req' = Body(Method(New(u), MethodWrite), b)
    /\ built' = <<Call("Post", <<u, b>>)>>
    /\ rpc' = "connect"
    /\ UNCHANGED <<sent, waited, notReq>>

\* Time passes while Do is blocked in the engine.  Do reads neither
\* req.timeout nor c.timeout and passes no deadline to the engine, so nothing
\* in Do ends the wait.
Tick ==
    /\ rpc \in {"connect", "fetch"}
    /\ waited < MaxWait
    /\ waited' = waited + 1
    /\ UNCHANGED <<req, built, sent, rpc, notReq>>

\* get returns a connection: Do calls conn.FetchWithHeaders.
Connected ==
    /\ rpc = "connect"
    /\ sent' = FetchArgs(req)
    /\ rpc' = "fetch"
    /\ UNCHANGED <<req, built, waited, notReq>>

\* The engine answers the exchange and Do returns.
Answered ==
    /\ rpc = "fetch"
    /\ rpc' = "done"
    /\ UNCHANGED <<req, built, sent, waited, notReq>>

InitRequest ==
    /\ InitPool
    /\ InitCallers(1)
    /\ InitAux
    /\ \E d \in Durations :
           /\ opts = <<WithTimeout(d)>>
           /\ client = NewClient(opts, TRUE)
    /\ scrubbed = {}
    /\ life = "open"

NextRequest ==
    \/ \E u \in GoodURLs : ReqNew(u)
    \/ \E m \in Methods : ReqMethod(m)
    \/ \E h \in Headers : ReqHeader(h)
    \/ \E b \in Bodies : ReqBody(b)
    \/ \E d \in Durations : ReqTimeout(d)
    \/ DoWith
    \/ \E u \in GoodURLs : ClientGet(u)
    \/ \E u \in GoodURLs, b \in Bodies : ClientPost(u, b)
    \/ Tick
    \/ Connected
    \/ Answered

SpecRequest == InitRequest /\ [][NextRequest]_vars

(***************************************************************************)
(* NormalizeURL applied to one address, and to its own result.             *)
(***************************************************************************)
\* Free-form inputs, with and without the scheme.
Inputs == {pre \o r : pre \in {Scheme, <<>>}, r \in Strings(MaxLen)}

\* The four ways of writing host and path: bare or bracketed host, without or
\* with the default port.
Forms == {"host/path", "host:6937/path", "[host]/path", "[host]:6937/path"}

Written(form, host, path) ==
    LET h == IF form \in {"host/path", "host:6937/path"} THEN host
             ELSE <<"[">> \o host \o <<"]">>
        p == IF form \in {"host/path", "[host]/path"} THEN <<>>
             ELSE <<":">> \o DefaultPort
    IN  Scheme \o h \o p \o <<"/">> \o path

InitNormalize ==
    /\ InitPool
    /\ InitCallers(1)
    /\ InitReq
    /\ InitResp
    /\ InitFacade
    /\ InitHTTP
    /\ opts = <<>>
    /\ client = NoClient
    /\ scrubbed = {}
    /\ life = "new"
    /\ \/ given \in Inputs /\ parts = NoParts
       \/ \E f \in Forms, h \in Strings(MaxPart), pa \in Strings(MaxPart) :
              /\ parts = [form |-> f, host |-> h, path |-> pa]
              /\ given = Written(f, h, pa)
    /\ once = NotYet
    /\ twice = NotYet

\* NormalizeURL(given)
NormalizeOnce ==
    /\ once = NotYet
    /\ once' = NormalizeURL(given)
    /\ UNCHANGED <<given, parts, twice, notNorm>>

\* NormalizeURL applied to the result of the first call.
NormalizeTwice ==
    /\ once # NotYet
    /\ twice = NotYet
    /\ twice' = NormalizeURL(once)
    /\ UNCHANGED <<given, parts, once, notNorm>>

NextNormalize == NormalizeOnce \/ NormalizeTwice

SpecNormalize == InitNormalize /\ [][NextNormalize]_vars

(***************************************************************************)
(* One reply: Do returns it, the caller classifies it.                     *)
(***************************************************************************)
\* Values of a retry-after header.
HeaderValues ==
    { <<"5">>,
      <<"0">>,
      <<"-", "1">>,
      <<"a", "b", "c">>,
      <<>>,
      <<"+", "5">>,
      <<"0", "5">>,
      <<"9", "2", "2", "3", "3", "7", "2", "0", "3", "6">>,
      <<"9", "2", "2", "3", "3", "7", "2", "0", "3", "7">> }
HeaderNames == {"retry-after", "Retry-After", "x-other"}
HeaderLists ==
    UNION {[1..n -> HeaderNames \X HeaderValues] : n \in 0..MaxHeaders}

\* Replies of every status without headers, and rate_limited replies with
\* every header list.
ReplyInputs ==
    {EngineReply(st, de, <<>>, bo) :
         st \in SuccessStatuses \cup ErrorStatuses,
         de \in {<<>>, <<"d">>}, bo \in {NoBody, <<"x">>}}
    \cup {EngineReply("rate_limited", <<>>, hs, NoBody) : hs \in HeaderLists}

InitResponse ==
    /\ InitPool
    /\ InitCallers(1)
    /\ InitReq
    /\ InitNorm
    /\ InitFacade
    /\ InitHTTP
    /\ opts = <<>>
    /\ client = NoClient
    /\ scrubbed = {}
    /\ life = "new"
    /\ reply \in ReplyInputs
    /\ response = NoResp
    /\ derr = UnsetError
    /\ class = NoClass
    /\ serr = UnsetError
    /\ retry = NoRetry

\* Do: the exchange completed; return responseFromNWEP(nr), nil.
DoReplies ==
    /\ derr = UnsetError
    /\ response' = responseFromNWEP(reply)
    /\ derr' = NilError
    /\ UNCHANGED <<reply, class, serr, retry, notResp>>

\* Do: a stage failed; return nil, &Error{Op, URL, Err}.
DoFailsAt(op, u, cause) ==
    /\ derr = UnsetError
    /\ derr' = ErrorValue(TransportError(op, u, cause))
    /\ UNCHANGED <<reply, response, class, serr, retry, notResp>>

\* The caller calls IsOK, IsSuccess and IsError.
Classify ==
    /\ response # NoResp
    /\ ~class.set
    /\ class' = [ok |-> IsOK(response), success |-> IsSuccess(response),
                 error |-> IsError(response), set |-> TRUE]
    /\ UNCHANGED <<reply, response, derr, serr, retry, notResp>>

\* The caller calls StatusError.
TakeStatusError ==
    /\ response # NoResp
    /\ serr = UnsetError
    /\ serr' = StatusError(response)
    /\ UNCHANGED <<reply, response, derr, class, retry, notResp>>

\* The caller calls RetryAfter.
TakeRetryAfter ==
    /\ response # NoResp
    /\ ~retry.set
    /\ retry' = [d |-> RetryAfter(response).d, ok |-> RetryAfter(response).ok,
                 set |-> TRUE]
    /\ UNCHANGED <<reply, response, derr, class, serr, notResp>>

NextResponse ==
    \/ DoReplies
    \/ \E u \in URLs :
           \/ DoFailsAt("parse", u, "ErrParse")
           \/ DoFailsAt("connect", u, "ErrConnect")
           \/ DoFailsAt("fetch", u, "ErrFetch")
    \/ Classify
    \/ TakeStatusError
    \/ TakeRetryAfter

SpecResponse == InitResponse /\ [][NextResponse]_vars

(***************************************************************************)
(* The package-level default client: Init, Default, Close.                 *)
(***************************************************************************)
\* The package functions that go through Default().
ViaDefault == {"Default", "Get", "Post", "Do", "Request.Do"}

InitDefault ==
    /\ InitPool
    /\ InitCallers(1)
    /\ InitReq
    /\ InitNorm
    /\ InitResp
    /\ InitFacade
    /\ InitHTTP
    /\ opts = <<>>
    /\ client = NoClient
    /\ scrubbed = {}
    /\ life = "new"

\* A caller enters a package function and runs up to its first step on
\* shared state.
Enter(p, fn, at) ==
    /\ fpc[p] = "idle"
    /\ fpc' = [fpc EXCEPT ![p] = at]
    /\ fcall' = [fcall EXCEPT ![p] = fn]
    /\ fout' = [fout EXCEPT ![p] = "none"]
    /\ fseen' = [fseen EXCEPT ![p] = "none"]

\* A caller leaves its package function; its locals are gone.
Leave(p, how) ==
    /\ fpc' = [fpc EXCEPT ![p] = "idle"]
    /\ fcall' = [fcall EXCEPT ![p] = "none"]
    /\ floc' = [floc EXCEPT ![p] = NoDefault]
    /\ fout' = [fout EXCEPT ![p] = how]

\* Init is called while clients can still be constructed; nwep.Init()
\* succeeds or fails.
InitRuntime(p) ==
    /\ \E i \in ClientIds : made[i] = "none"
    /\ fpc[p] = "idle"
    /\ \/ Enter(p, "Init", "init_new") /\ UNCHANGED floc
       \/ Leave(p, "error") /\ UNCHANGED fseen
    /\ UNCHANGED <<defaultClient, defaultMu, made, lastSet, notFacade>>

\* Init: c, err := NewClient() constructs a client or fails.
InitNewClient(p) ==
    /\ fpc[p] = "init_new"
    /\ \/ /\ \E i \in ClientIds :
                 /\ made[i] = "none"
                 /\ \A j \in ClientIds : made[j] = "none" => i <= j
                 /\ made' = [made EXCEPT ![i] = "open"]
                 /\ floc' = [floc EXCEPT ![p] = i]
          /\ fpc' = [fpc EXCEPT ![p] = "init_lock"]
          /\ UNCHANGED <<fcall, fout>>
       \/ /\ Leave(p, "error")
          /\ UNCHANGED made
    /\ UNCHANGED <<defaultClient, defaultMu, lastSet, fseen, notFacade>>

\* Init: defaultMu.Lock()
InitLock(p) ==
    /\ fpc[p] = "init_lock"
    /\ defaultMu = NoProc
    /\ defaultMu' = p
    /\ fpc' = [fpc EXCEPT ![p] = "init_set"]
    /\ UNCHANGED <<defaultClient, made, fcall, floc, fout, lastSet, fseen,
                   notFacade>>

\* Init: defaultClient = c; defaultMu.Unlock(); return nil
InitSet(p) ==
    /\ fpc[p] = "init_set"
    /\ defaultClient' = floc[p]
    /\ lastSet' = "Init"
    /\ defaultMu' = NoProc
    /\ Leave(p, "nil")
    /\ UNCHANGED <<made, fseen, notFacade>>

\* Default, or Get, Post, Do, Request.Do calling it: defaultMu.Lock()
DefaultLock(p, fn) ==
    /\ defaultMu = NoProc
    /\ defaultMu' = p
    /\ Enter(p, fn, "default_read")
    /\ UNCHANGED <<defaultClient, made, floc, lastSet, notFacade>>

\* Default: c := defaultClient; defaultMu.Unlock()
DefaultRead(p) ==
    /\ fpc[p] = "default_read"
    /\ floc' = [floc EXCEPT ![p] = defaultClient]
    /\ fseen' = [fseen EXCEPT ![p] = lastSet]
    /\ defaultMu' = NoProc
    /\ fpc' = [fpc EXCEPT ![p] = "default_check"]
    /\ UNCHANGED <<defaultClient, made, fcall, fout, lastSet, notFacade>>

\* Default: panic if c == nil, else return c.
DefaultCheck(p) ==
    /\ fpc[p] = "default_check"
    /\ Leave(p, IF floc[p] = NoDefault THEN "panic" ELSE "client")
    /\ UNCHANGED <<defaultClient, defaultMu, made, lastSet, fseen,
                   notFacade>>

\* Close: defaultMu.Lock()
CloseLock(p) ==
    /\ defaultMu = NoProc
    /\ defaultMu' = p
    /\ Enter(p, "Close", "close_swap")
    /\ UNCHANGED <<defaultClient, made, floc, lastSet, notFacade>>

\* A Close that leaves the client installed.
CloseSwap_KeepsClient(p) ==
    /\ fpc[p] = "close_swap"
    /\ floc' = [floc EXCEPT ![p] = defaultClient]
    /\ lastSet' = "Close"
    /\ defaultMu' = NoProc
    /\ fpc' = [fpc EXCEPT ![p] = "close_client"]
    /\ UNCHANGED <<defaultClient, made, fcall, fout, fseen, notFacade>>

\* Close: c := defaultClient; defaultClient = nil; defaultMu.Unlock()
CloseSwap(p) ==
    /\ fpc[p] = "close_swap"
    /\ floc' = [floc EXCEPT ![p] = defaultClient]
    /\ defaultClient' = NoDefault
    /\ lastSet' = "Close"
    /\ defaultMu' = NoProc
    /\ fpc' = [fpc EXCEPT ![p] = "close_client"]
    /\ UNCHANGED <<made, fcall, fout, fseen, notFacade>>

\* Close: if c != nil { c.Close() }
CloseClient(p) ==
    /\ fpc[p] = "close_client"
    /\ made' = IF floc[p] = NoDefault THEN made
               ELSE [made EXCEPT ![floc[p]] = "closed"]
    /\ Leave(p, IF floc[p] = NoDefault THEN "nothing" ELSE "closed")
    /\ UNCHANGED <<defaultClient, defaultMu, lastSet, fseen, notFacade>>

NextDefault ==
    \E p \in Procs :
        \/ InitRuntime(p)
        \/ InitNewClient(p)
        \/ InitLock(p)
        \/ InitSet(p)
        \/ \E fn \in ViaDefault : DefaultLock(p, fn)
        \/ DefaultRead(p)
        \/ DefaultCheck(p)
        \/ CloseLock(p)
        \/ CloseSwap(p)
        \/ CloseClient(p)

SpecDefault == InitDefault /\ [][NextDefault]_vars

(***************************************************************************)
(* One request to /raw.                                                    *)
(***************************************************************************)
\* The addr parameter: missing or empty, or one of the raw URLs.
Targets == {<<>>} \cup URLs
ContentTypes == {<<>>, <<"text/html">>}
ContentTypeHeaders ==
    UNION {[1..n -> {"content-type", "Content-Type"} \X ContentTypes] :
               n \in 0..MaxHeaders}

\* What the upstream may reply to the read request.
Upstream ==
    {EngineReply(st, de, hs, bo) :
         st \in {"ok", "no_content", "not_found", "unavailable"},
         de \in {<<>>, <<"d">>}, hs \in ContentTypeHeaders,
         bo \in {NoBody, <<"x">>}}

InitRaw ==
    /\ InitPool
    /\ InitCallers(1)
    /\ InitReq
    /\ InitNorm
    /\ InitFacade
    /\ opts = <<WithTimeout(<<3>>)>>
    /\ client = NewClient(opts, TRUE)
    /\ scrubbed = {}
    /\ life = "open"
    /\ target \in Targets
    /\ hrsp = NoHTTP
    /\ reply \in Upstream
    /\ response = NoResp
    /\ derr = UnsetError
    /\ class = NoClass
    /\ serr = UnsetError
    /\ retry = NoRetry

\* handleRaw: target == "", the handler answers without calling the client.
RawMissing ==
    /\ hrsp = NoHTTP
    /\ target = <<>>
    /\ hrsp' = handleRaw(target, response, derr)
    /\ UNCHANGED <<target, respVars, notHTTP>>

\* handleRaw: client.Get(target) fails at a stage: at parse when the address
\* does not parse, at connect or fetch when it does.
RawFailed(op, cause) ==
    /\ hrsp = NoHTTP
    /\ target # <<>>
    /\ (op = "parse") = ~URLParse(NormalizeURL(target)).ok
    /\ derr' = ErrorValue(TransportError(op, target, cause))
    /\ hrsp' = handleRaw(target, response, derr')
    /\ UNCHANGED <<target, reply, response, class, serr, retry, notHTTP>>

\* handleRaw: client.Get(target) returns the upstream's reply.
RawAnswered ==
    /\ hrsp = NoHTTP
    /\ target # <<>>
    /\ URLParse(NormalizeURL(target)).ok
    /\ response' = responseFromNWEP(reply)
    /\ derr' = NilError
    /\ hrsp' = handleRaw(target, response', derr')
    /\ UNCHANGED <<target, reply, class, serr, retry, notHTTP>>

NextRaw ==
    \/ RawMissing
    \/ RawFailed("parse", "ErrParse")
    \/ RawFailed("connect", "ErrConnect")
    \/ RawFailed("fetch", "ErrFetch")
    \/ RawAnswered

SpecRaw == InitRaw /\ [][NextRaw]_vars

(***************************************************************************)
(* Properties of the connection pool.                                      *)
(***************************************************************************)
\* The callers inside get for address k (between the first look at the map
\* and the return).
InGet(k) ==
    {p \in Procs : /\ pc[p] \in {"get_check1", "get_dial", "get_lock2",
                                 "get_check2", "get_discard"}
                   /\ key[p] = k}

\* The callers whose get for address k has returned a connection.
Returned(k) == {p \in Procs : pc[p] = "fetch" /\ got[p].key = k}

\* C1: when gets race on one address (no remove, no closeAll), every get that
\* has returned was given the connection stored under the key, a losing
\* caller's own connection has been closed (once) by the time its get
\* returns, and once no get for the address is in flight the stored
\* connection is the only live one for it.
C1_RaceKeepsOneConnection ==
    \A k \in Keys :
        /\ \A p \in Returned(k) :
               /\ conns[k] # NoConn
               /\ got[p].conn = conns[k]
               /\ clients[got[p].conn].st = "open"
               /\ (mine[p] # NoConn /\ mine[p] # got[p].conn) =>
                      /\ clients[mine[p]].st = "closed"
                      /\ clients[mine[p]].closes = 1
        /\ (InGet(k) = {}) => Live(k) \subseteq {conns[k]}

\* Two callers raced on one address, both dialed, both have returned, and one
\* of them lost.
C1_Witness ==
    \E p, q \in Procs :
        /\ p # q
        /\ pc[p] = "fetch" /\ pc[q] = "fetch"
        /\ got[p].key = got[q].key
        /\ mine[p] = got[p].conn
        /\ mine[q] # NoConn /\ mine[q] # got[q].conn

\* A connection held by a pool operation that has not finished with it: a get
\* that dialed it and has not yet stored or discarded it, a remove or a
\* closeAll that took it out of the map and has not yet closed it.
InFlight(c) ==
    \E p \in Procs :
        \/ pc[p] \in {"get_lock2", "get_check2", "get_discard"} /\ mine[p] = c
        \/ pc[p] = "rm_close" /\ removed[p] = c
        \/ pc[p] = "ca_close" /\ c \in snap[p]

\* C2 (as stated): in every reachable state at most one live connection exists
\* per canonical address.
C2_AtMostOneLive == \A k \in Keys : Cardinality(Live(k)) <= 1

\* C2 (amended): in every reachable state at most one live connection per
\* address is stored in the pool, and every other live connection to that
\* address is in the hands of a pool operation still in flight.
C2_OneLiveUnlessInFlight ==
    \A k \in Keys :
        \A c \in Live(k) : c = conns[k] \/ InFlight(c)

\* Two live connections to one address exist while a get is in flight.
C2_Witness ==
    \E k \in Keys :
        /\ Cardinality(Live(k)) = 2
        /\ \A c \in Live(k) : c = conns[k] \/ InFlight(c)

\* C3: the remove made by a failed Do takes out of the pool the connection
\* that Do was using, and no other.
C3_RemovesFailedConnection ==
    \A p \in Procs : pc[p] = "rm_close" => removed[p] = got[p].conn

\* C4: a get that finds an entry returns it without dialing; a get that
\* returns gives the handle stored under its own key, connected to its own
\* address; and no get changes an entry that is already stored.
C4_SequentialReuse ==
    [][ /\ \A k \in Keys : conns[k] # NoConn => conns'[k] = conns[k]
        /\ \A p \in Procs :
               /\ (pc[p] # "fetch" /\ pc'[p] = "fetch") =>
                      /\ got'[p].key = key[p]
                      /\ got'[p].conn = conns'[key[p]]
                      /\ clients'[got'[p].conn].addr = key[p]
               /\ (/\ pc[p] = "get_check1" /\ pc'[p] # "get_check1"
                   /\ conns[key[p]] # NoConn) =>
                      /\ pc'[p] = "fetch"
                      /\ got'[p].conn = conns[key[p]]
                      /\ mine'[p] = NoConn
                      /\ clients' = clients
               /\ (/\ pc[p] = "get_check1" /\ pc'[p] # "get_check1"
                   /\ conns[key[p]] = NoConn) =>
                      pc'[p] = "get_dial"
      ]_vars

\* A single caller made three gets: the third found the entry of the first
\* and dialed nothing, while the second stored a different handle for a
\* different address.
C4_Witness ==
    /\ callers = {1}
    /\ pc[1] = "fetch" /\ mine[1] = NoConn
    /\ \A k \in Keys : conns[k] # NoConn
    /\ \A k1, k2 \in Keys : k1 # k2 => conns[k1] # conns[k2]

\* A connection that a remove or a closeAll took out of the map, or that was
\* closed.
Evicted(c) ==
    \/ clients[c].st = "closed"
    \/ \E p \in Procs : \/ pc[p] = "rm_close" /\ removed[p] = c
                        \/ c \in snap[p]

\* C5: a connection that was evicted is never in the map again, so the next
\* get for its address dials; the connection a get has just dialed is a new
\* open handle; and with a single caller every get returns the open handle
\* stored under its key while every connection outside the map is closed.
C5_EvictedNeverReused ==
    /\ \A c \in ConnIds : Evicted(c) => c \notin Stored
    /\ \A p \in Procs :
           pc[p] \in {"get_lock2", "get_check2"} =>
               /\ clients[mine[p]].st = "open"
               /\ mine[p] \notin Stored
               /\ ~Evicted(mine[p])
    /\ (callers = {1} /\ life = "open") =>
           /\ pc[1] = "fetch" =>
                  /\ got[1].conn = conns[got[1].key]
                  /\ clients[got[1].conn].st = "open"
           /\ pc[1] \in {"idle", "get_check1", "get_dial", "fetch"} =>
                  \A c \in ConnIds : clients[c].st = "open" => c \in Stored

\* A single caller's get after a remove: it dialed the handle it returns, and
\* the evicted connection is closed.
C5_Witness ==
    /\ callers = {1} /\ life = "open"
    /\ pc[1] = "fetch"
    /\ mine[1] = got[1].conn
    /\ \E c \in ConnIds :
           /\ clients[c].dialed /\ clients[c].st = "closed"
           /\ c # got[1].conn

(***************************************************************************)
(* Properties of Client.Do.                                                *)
(***************************************************************************)
DialCauses == {"ErrNewClient", "ErrFormat", "ErrConnect"}

\* C6: what Do returns is exactly one of a Response and a Transport Error:
\* stage parse exactly when the address does not parse, stage connect for a
\* failure of get, stage fetch for a failed exchange, and a Response with no
\* error for every completed exchange whatever its status; the error carries
\* the request's URL as given (not normalized) and the cause.
C6_DoReturnsOneOutcome ==
    result.returned =>
        /\ (result.resp = NoResp) # (result.err = NoErr)
        /\ result.resp # NoResp =>
               /\ \E nr \in Replies : result.resp = responseFromNWEP(nr)
               /\ result.err = NoErr
        /\ result.err # NoErr =>
               /\ result.resp = NoResp
               /\ result.err.URL \in URLs
               /\ result.err.Op \in {"parse", "connect", "fetch"}
               /\ (result.err.Op = "parse") = ~Parsed(result.err.URL).ok
               /\ (result.err.Op = "parse") = (result.err.Err = "ErrParse")
               /\ (result.err.Op = "connect") =
                      (result.err.Err \in DialCauses \cup {"ErrEncode"})
               /\ (result.err.Op = "fetch") = (result.err.Err = "ErrFetch")

\* A Do whose dial failed returned a connect error carrying the URL as the
\* caller wrote it, which differs from its normalized form.
C6_Witness ==
    /\ result.returned
    /\ result.err.Op = "connect"
    /\ result.err.Err = "ErrConnect"
    /\ result.err.URL # NormalizeURL(result.err.URL)

\* C7: the step in which Do returns a parse or connect error changes no entry
\* of the map, does not touch the lock and changes no connection object that
\* existed before; the only object a failed dial closes is the one it created
\* in that step; and with a single caller the address of a failed dial has no
\* entry afterwards.
C7_FailedDoLeavesPool ==
    [][ (result'.returned /\ result'.err.Op \in {"parse", "connect"}) =>
            /\ conns' = conns
            /\ mu' = mu
            /\ \A c \in ConnIds :
                   \/ clients'[c] = clients[c]
                   \/ /\ clients[c].st = "free"
                      /\ c \notin Stored
                      /\ clients'[c].st = "closed"
                      /\ clients'[c].closes = 1
                      /\ result'.err.Err \in {"ErrFormat", "ErrConnect"}
            /\ (callers = {1} /\ result'.err.Err \in DialCauses) =>
                   conns'[AddrEncode(Parsed(result'.err.URL).Addr)] = NoConn
      ]_vars

\* A single caller's Do to an unreachable address failed while the pool held
\* an entry for another address; that entry is still there.
C7_Witness ==
    /\ callers = {1}
    /\ result.returned
    /\ result.err.Err = "ErrConnect"
    /\ \E k \in Keys :
           /\ conns[k] # NoConn
           /\ k # AddrEncode(Parsed(result.err.URL).Addr)
           /\ clients[conns[k]].st = "open"

(***************************************************************************)
(* Properties of closeAll and remove.                                      *)
(***************************************************************************)
\* The positions at which a goroutine reads or writes the map.
Critical == {"get_check1", "get_check2", "rm_check", "ca_swap"}

\* The lock is held exactly by the goroutine that is at the map.
MutualExclusion ==
    \A p \in Procs :
        pc[p] \in Critical =>
            /\ mu = p
            /\ \A q \in Procs \ {p} : pc[q] \notin Critical

\* C8: closeAll takes every entry out of the map in one step made under the
\* lock, while no get or remove is at the map; a connection it took is not
\* held by any remove, and the only step that closes it is closeAll's own;
\* closeAll returns only when it has closed all of them.
C8_CloseAllAtomic ==
    [][ /\ MutualExclusion /\ MutualExclusion'
        /\ \A p \in Procs :
               /\ (pc[p] = "ca_swap" /\ pc'[p] # "ca_swap") =>
                      /\ mu = p
                      /\ snap'[p] = Stored
                      /\ \A k \in Keys : conns'[k] = NoConn
                      /\ clients' = clients
               /\ \A c \in snap[p] :
                      /\ clients[c].st = "open"
                      /\ c \notin Stored
                      /\ \A q \in Procs :
                             ~(pc[q] = "rm_close" /\ removed[q] = c)
                      /\ clients'[c] # clients[c] =>
                             /\ snap'[p] = snap[p] \ {c}
                             /\ clients'[c].st = "closed"
                             /\ clients'[c].closes = 1
               /\ (pc[p] = "ca_close" /\ pc'[p] # "ca_close") =>
                      snap[p] = {}
      ]_vars

\* closeAll has closed the connection it took out of the map while another
\* caller, whose exchange on that connection is failing, is at remove.
C8_Witness ==
    \E p, q \in Procs :
        /\ pc[p] = "ca_close" /\ snap[p] = {}
        /\ pc[q] = "rm_check"
        /\ clients[got[q].conn].st = "closed"
        /\ clients[got[q].conn].closes = 1

\* C9: remove on a present key deletes that entry and no other and then
\* closes that connection and no other; remove on an absent key changes no
\* entry and no connection.
C9_RemoveFrame ==
    [][ \A p \in Procs :
            /\ (/\ pc[p] = "rm_check" /\ pc'[p] # "rm_check"
                /\ conns[got[p].key] # NoConn) =>
                   /\ conns' = [conns EXCEPT ![got[p].key] = NoConn]
                   /\ removed'[p] = conns[got[p].key]
                   /\ clients' = clients
                   /\ pc'[p] = "rm_close"
            /\ (/\ pc[p] = "rm_check" /\ pc'[p] # "rm_check"
                /\ conns[got[p].key] = NoConn) =>
                   /\ conns' = conns
                   /\ clients' = clients
                   /\ pc'[p] = "idle"
            /\ (pc[p] = "rm_close" /\ pc'[p] # "rm_close") =>
                   /\ conns' = conns
                   /\ clients[removed[p]].st = "open"
                   /\ clients'[removed[p]].st = "closed"
                   /\ \A c \in ConnIds \ {removed[p]} :
                          clients'[c] = clients[c]
                   /\ \A c \in Stored : clients'[c].st = "open"
      ]_vars

\* A remove has deleted its entry and is about to close the connection, while
\* the entry of another address is still stored.
C9_Witness ==
    \E p \in Procs :
        /\ pc[p] = "rm_close"
        /\ conns[got[p].key] = NoConn
        /\ clients[removed[p]].st = "open"
        /\ \E k \in Keys : conns[k] # NoConn

(***************************************************************************)
(* Properties of NewClient.                                                *)
(***************************************************************************)
\* The positions of the identity options in an option list.
IdentityOptions(os) ==
    {i \in 1..Len(os) : os[i].kind \in {"keypair", "seed"}}

Last(S) == CHOOSE i \in S : \A j \in S : j <= i

\* C10: the identity of a constructed Client is the one of the last identity
\* option in the list (the keypair given, or the keypair derived from the seed
\* given), and a generated one when the list has no identity option;
\* construction fails only when the engine's generation or derivation fails.
C10_LaterIdentityWins ==
    LET ids == IdentityOptions(opts)
    IN  (\A i \in ids : opts[i].val # NoKP) =>
            /\ (life = "open" /\ ids = {}) =>
                   client.keypair = GeneratedKP /\ client.ownsKey
            /\ (life = "open" /\ ids # {}) =>
                   LET last == opts[Last(ids)]
                   IN  client.keypair =
                           IF last.kind = "keypair" THEN last.val
                           ELSE KeypairFromSeed(last.val)
            /\ life = "failed" =>
                   /\ client = NoClient
                   /\ (ids = {} \/ opts[Last(ids)].kind = "seed")

(***************************************************************************)
(* Properties of Client.Close.                                             *)
(***************************************************************************)
\* C11: for every option list, no keypair supplied by the caller is ever
\* cleared, nothing is cleared before Close, the Client owns its identity
\* exactly when it generated or derived it, and once Close has returned the
\* cleared keypairs are exactly the owned identity.
C11_ScrubsOwnedIdentity ==
    /\ scrubbed \cap CallerKeypairs = {}
    /\ life \in {"new", "failed", "open", "closing"} => scrubbed = {}
    /\ life \in {"open", "closing", "closed"} =>
           /\ client.keypair # NoKP
           /\ client.ownsKey = (client.keypair \notin CallerKeypairs)
    /\ life = "closed" =>
           scrubbed = IF client.keypair \in CallerKeypairs THEN {}
                      ELSE {client.keypair}

\* A Client built from a seed option followed by a caller's keypair has been
\* closed: the caller's keypair is its identity and nothing was cleared.
C11_Witness ==
    /\ life = "closed"
    /\ Len(opts) = 2
    /\ opts[1].kind = "seed"
    /\ opts[2].kind = "keypair"
    /\ client.keypair \in CallerKeypairs
    /\ scrubbed = {}

(***************************************************************************)
(* Properties of timeouts.                                                 *)
(***************************************************************************)
\* The timeout meant to apply to the Do in progress: the request's own when
\* it is non-zero, the client's default otherwise.
EffectiveTimeout ==
    IF req.timeout # <<0>> THEN req.timeout[1] ELSE client.timeout[1]

\* C12: while Do is blocked on dialing or on the exchange and the effective
\* timeout is non-zero, it has not been blocked for longer than that timeout.
C12_WaitBoundedByTimeout ==
    (rpc \in {"connect", "fetch"} /\ EffectiveTimeout # 0) =>
        waited <= EffectiveTimeout

(***************************************************************************)
(* Properties of NormalizeURL.                                             *)
(***************************************************************************)
\* An address written web://[host]:port/path: the first ']' after "web://["
\* is followed by ':' and a '/' comes after it.
IsCanonical(s) ==
    /\ HasPrefix(s, Scheme \o <<"[">>)
    /\ LET rest == From(s, Len(Scheme) + 1)
           end == Index(rest, "]")
           after == From(rest, end + 1)
       IN  /\ end > 0
           /\ Len(after) > 0
           /\ after[1] = ":"
           /\ Index(after, "/") > 0

\* C13: normalizing the result of NormalizeURL gives that result again, for
\* every input; and an input already written web://[host]:port/path is
\* returned unchanged.
C13_NormalizeIdempotent ==
    /\ twice # NotYet => twice = once
    /\ (once # NotYet /\ IsCanonical(given)) => once = given

\* An input that the first call rewrote and the second call left alone.
C13_Witness ==
    /\ twice # NotYet
    /\ once # given
    /\ twice = once
    /\ IsCanonical(once)
    /\ ~HasPrefix(given, Scheme)

\* The canonical address of a host and a path with the default port.
Canonical(host, path) ==
    Scheme \o <<"[">> \o host \o <<"]", ":">> \o DefaultPort \o <<"/">>
        \o path

\* A host that brackets can enclose: none of the characters '/', '[', ']'.
BracketableHost(h) == \A i \in 1..Len(h) : h[i] \notin {"/", "[", "]"}

\* A host that holds none of the characters ':', '/', '[', ']'.
PlainHost(h) == BracketableHost(h) /\ \A i \in 1..Len(h) : h[i] # ":"

\* C14 (as stated): for every host and path, the four ways of writing them
\* normalize to web://[host]:6937/path (hosts being texts that brackets can
\* enclose, separators such as ':' included).
C14_FormsAgree ==
    (once # NotYet /\ parts # NoParts /\ BracketableHost(parts.host)) =>
        once = Canonical(parts.host, parts.path)

\* C14 (amended): for every host without ':', '/', '[' or ']' and every path,
\* the four ways of writing them normalize to web://[host]:6937/path.
C14_PlainFormsAgree ==
    (once # NotYet /\ parts # NoParts /\ PlainHost(parts.host)) =>
        once = Canonical(parts.host, parts.path)

\* A bare host with the default port written out has been normalized to the
\* canonical address.
C14_Witness ==
    /\ once # NotYet
    /\ parts.form = "host:6937/path"
    /\ Len(parts.host) > 0 /\ PlainHost(parts.host)
    /\ Len(parts.path) > 0
    /\ once = Canonical(parts.host, parts.path)

\* The text after the scheme.
Rest(s) == From(s, Len(Scheme) + 1)

\* Bracket syntax that NormalizeURL does not read: no ']' after the '[', or
\* something other than ':' or '/' right after the ']'.
MalformedBracket(s) ==
    LET rest == Rest(s)
        end == Index(rest, "]")
        after == From(rest, end + 1)
    IN  /\ Len(rest) > 0
        /\ rest[1] = "["
        /\ \/ end = 0
           \/ Len(after) > 0 /\ after[1] \notin {":", "/"}

\* The positions of s at which "]:" stands, closing a bracketed host.
Closings(s) ==
    {i \in (Len(Scheme) + 2)..(Len(s) - 1) : s[i] = "]" /\ s[i + 1] = ":"}

\* s is web://[host]:port/path for some host, some port without '/', empty
\* only if allowed, and some path that begins with '/'.
HasForm(s, emptyPort) ==
    /\ HasPrefix(s, Scheme \o <<"[">>)
    /\ \E i \in Closings(s) :
           LET slash == Index(From(s, i + 2), "/")
           IN  slash > (IF emptyPort THEN 0 ELSE 1)

\* The input names no port: no ':' in a bare host part, none right after
\* the ']' of a bracketed one.
NamesNoPort(s) ==
    LET rest == Rest(s)
        slash == Index(rest, "/")
        hostPart == IF slash = 0 THEN rest ELSE SubSeq(rest, 1, slash - 1)
        end == Index(rest, "]")
        after == From(rest, end + 1)
    IN  IF rest[1] = "[" THEN Len(after) = 0 \/ after[1] # ":"
        ELSE Index(hostPart, ":") = 0

\* The input names an empty port: "host:" or "[host]:" followed by the path
\* or by nothing.
NamesEmptyPort(s) ==
    LET rest == Rest(s)
        slash == Index(rest, "/")
        hostPart == IF slash = 0 THEN rest ELSE SubSeq(rest, 1, slash - 1)
        colon == Index(hostPart, ":")
        end == Index(rest, "]")
        after == From(rest, end + 1)
    IN  IF rest[1] = "["
        THEN /\ Len(after) > 0 /\ after[1] = ":"
             /\ (Len(after) = 1 \/ after[2] = "/")
        ELSE colon > 0 /\ colon = Len(hostPart)

\* The result carries the default port right after the bracketed host.
HasDefaultPort(s) ==
    \E i \in Closings(s) :
        HasPrefix(From(s, i + 2), DefaultPort \o <<"/">>)

\* C15 (as stated): for every input in the web:// scheme the result is
\* web://[host]:port/path with a non-empty port, 6937 when the input names
\* none, and a path that begins with '/'; an input is returned unchanged only
\* when it is already of that form or its bracket syntax is malformed.
C15_CanonicalForm ==
    (once # NotYet /\ HasPrefix(given, Scheme)) =>
        \/ once = given /\ MalformedBracket(given)
        \/ /\ HasForm(once, FALSE)
           /\ NamesNoPort(given) => HasDefaultPort(once)

\* C15 (amended): for every input in the web:// scheme, the bare scheme and an
\* input with malformed bracket syntax are returned unchanged; every other
\* input gives web://[host]:port/path with a path that begins with '/', where
\* the port is 6937 when the input names none and is empty only when the
\* input names an empty one; and an input is returned unchanged only in those
\* two cases or when it is already of that form.
C15_CanonicalFormOrUnchanged ==
    (once # NotYet /\ HasPrefix(given, Scheme)) =>
        IF Len(Rest(given)) = 0 \/ MalformedBracket(given)
        THEN once = given
        ELSE /\ HasForm(once, NamesEmptyPort(given))
             /\ NamesNoPort(given) => HasDefaultPort(once)
             /\ once = given => HasForm(given, TRUE)

\* A bare host without port and without path has been given brackets, the
\* default port and the path "/".
C15_Witness ==
    /\ once # NotYet
    /\ HasPrefix(given, Scheme)
    /\ Len(Rest(given)) > 0
    /\ Index(Rest(given), "/") = 0
    /\ Index(Rest(given), "[") = 0
    /\ Index(Rest(given), ":") = 0
    /\ once = Scheme \o <<"[">> \o Rest(given) \o <<"]", ":">> \o DefaultPort
                  \o <<"/">>

(***************************************************************************)
(* Properties of responses.                                                *)
(***************************************************************************)
\* C16: a reply with one of the four success statuses is a success, not an
\* error, and has no status error; a reply with one of the eight error
\* statuses is an error, not a success, and its status error carries the
\* status, the details and the body of the response; IsOK holds for ok only.
C16_StatusClassification ==
    LET success == reply.Status \in {"ok", "created", "accepted", "no_content"}
        error == reply.Status \in
                     {"bad_request", "unauthorized", "forbidden", "not_found",
                      "conflict", "rate_limited", "internal_error",
                      "unavailable"}
    IN  /\ class.set =>
               /\ success => class.success /\ ~class.error
               /\ error => class.error /\ ~class.success
               /\ class.ok = (reply.Status = "ok")
        /\ serr # UnsetError =>
               /\ success => serr = NilError
               /\ error =>
                      /\ serr.kind = "status"
                      /\ serr.Status = response.Status
                      /\ serr.StatusDetails = response.StatusDetails
                      /\ serr.Body = response.Body
                      /\ response = responseFromNWEP(reply)

\* A conflict reply with details and a body has been classified and its
\* status error taken.
C16_Witness ==
    /\ class.set /\ class.error
    /\ serr.kind = "status"
    /\ serr.Status = "conflict"
    /\ serr.StatusDetails # <<>>
    /\ serr.Body # NoBody

\* C17: RetryAfter reports a delay exactly when the first header named
\* "retry-after" (in that case) has a value that parses as an integer
\* n >= 0, and the delay is then n seconds; otherwise it reports no delay,
\* whatever the later headers are.
C17_RetryAfterOfFirstHeader ==
    retry.set =>
        LET named == {i \in 1..Len(reply.Headers) :
                          reply.Headers[i][1] = "retry-after"}
            first == CHOOSE i \in named : \A j \in named : i <= j
            n == Atoi(reply.Headers[first][2])
        IN  IF named # {} /\ ~n.err /\ ~n.neg
            THEN retry.ok /\ retry.d = [secs |-> n.mag, wrapped |-> FALSE]
            ELSE ~retry.ok

\* The sentinel predicate of an error status.
Sentinel(status, e) ==
    CASE status = "bad_request" -> IsBadRequest(e)
      [] status = "unauthorized" -> IsUnauthorized(e)
      [] status = "forbidden" -> IsForbidden(e)
      [] status = "not_found" -> IsNotFound(e)
      [] status = "conflict" -> IsConflict(e)
      [] status = "rate_limited" -> IsRateLimited(e)
      [] status = "internal_error" -> IsInternalError(e)
      [] status = "unavailable" -> IsUnavailable(e)

\* C18: a reply with an error status s is returned by Do as a Response
\* with a nil error, and its StatusError satisfies the sentinel of s and
\* none of the other seven; the nil error and an *Error wrapping an engine
\* error satisfy no sentinel.
C18_SentinelOfStatus ==
    /\ (response # NoResp /\ reply.Status \in ErrorStatuses) =>
           /\ derr = NilError
           /\ response.Status = reply.Status
    /\ (serr # UnsetError /\ reply.Status \in ErrorStatuses) =>
           \A status \in ErrorStatuses :
               Sentinel(status, serr) = (status = reply.Status)
    /\ derr # UnsetError =>
           /\ derr.kind \in {"nil", "transport"}
           /\ \A status \in ErrorStatuses : ~Sentinel(status, derr)
    /\ \A status \in ErrorStatuses : ~Sentinel(status, NilError)

\* A not_found reply came back from Do with a nil error and its StatusError
\* was taken.
C18_Witness ==
    /\ reply.Status = "not_found"
    /\ derr = NilError
    /\ response.Status = "not_found"
    /\ serr.kind = "status"
    /\ IsNotFound(serr)

(***************************************************************************)
(* Properties of the package-level default client.                         *)
(***************************************************************************)
\* What a call of Default, Get, Post, Do or Request.Do must find: a client
\* exactly when the last write of defaultClient was a successful Init's.
DefaultOutcome ==
    \A p \in Procs :
        fout[p] \in {"panic", "client"} =>
            (fout[p] = "panic") = (fseen[p] # "Init")

\* The installed client is a constructed one.
InstalledIsConstructed ==
    defaultClient # NoDefault => made[defaultClient] \in {"open", "closed"}

\* Default returns a constructed client or panics.
DefaultReturnsConstructed ==
    \A p \in Procs :
        (fpc[p] = "default_check" /\ fpc'[p] = "idle") =>
            /\ fcall[p] \in ViaDefault
            /\ fout'[p] \in {"panic", "client"}
            /\ fout'[p] = "client" => made[floc[p]] \in {"open", "closed"}

\* Close without an installed client changes nothing but the caller.
CloseIsNoOp ==
    \A p \in Procs :
        (fpc[p] = "close_client" /\ floc[p] = NoDefault /\ fpc'[p] = "idle") =>
            /\ UNCHANGED <<defaultClient, defaultMu, made, lastSet>>
            /\ fout'[p] = "nothing"

\* Init installs the client it constructed, whatever was installed.
InitReplaces ==
    \A p \in Procs :
        (fpc[p] = "init_set" /\ fpc'[p] = "idle") =>
            /\ defaultClient' = floc[p]
            /\ floc[p] # NoDefault
            /\ made[floc[p]] = "open"

\* C19: Default, and Get, Post, Do and Request.Do through it, panics
\* exactly when no default client is installed, that is before the first
\* successful Init and after a Close until the next Init; Close with no
\* client installed does nothing; an Init replaces the installed client;
\* concurrent callers see no client or a constructed one.
C19_DefaultClient ==
    /\ [](DefaultOutcome /\ InstalledIsConstructed)
    /\ [][DefaultReturnsConstructed /\ CloseIsNoOp /\ InitReplaces]_vars

\* After an Init and a Close that closed its client, a call through Default
\* panicked; a second Init has since installed another client.
C19_Witness ==
    \E p \in Procs :
        /\ fout[p] = "panic"
        /\ fseen[p] = "Close"
        /\ \E i \in ClientIds : made[i] = "closed"
        /\ defaultClient # NoDefault
        /\ made[defaultClient] = "open"

(***************************************************************************)
(* Properties of the request builder.                                      *)
(***************************************************************************)
\* The arguments of the calls of one builder function, in call order.
ArgsOf(fn) ==
    LET cs == SelectSeq(built, LAMBDA c : c.call = fn)
    IN  [i \in 1..Len(cs) |-> cs[i].arg]

\* The argument of the last call of a builder function, or what New set.
LastArg(fn, unset) ==
    IF Len(ArgsOf(fn)) = 0 THEN unset ELSE ArgsOf(fn)[Len(ArgsOf(fn))]

\* C20: the method, body and headers handed to the exchange are the
\* builder's: read, no headers and no body after New; the argument of the
\* last Method call and of the last Body call; the arguments of the Header
\* calls in call order, duplicates kept.  Client.Get sends read with no
\* body, Client.Post sends write with the given body.
C20_ExchangeGetsBuilderState ==
    sent # NoSent =>
        CASE built[1].call = "Get" ->
                 /\ sent.method = "read"
                 /\ sent.body = NoBody
                 /\ sent.headers = <<>>
          [] built[1].call = "Post" ->
                 /\ sent.method = "write"
                 /\ sent.body = built[1].arg[2]
                 /\ sent.headers = <<>>
          [] built[1].call = "New" ->
                 /\ sent.method = LastArg("Method", "read")
                 /\ sent.body = LastArg("Body", NoBody)
                 /\ sent.headers = ArgsOf("Header")

\* A request built with Method(write) and the same header twice was sent.
C20_Witness ==
    /\ sent # NoSent
    /\ built[1].call = "New"
    /\ sent.method = "write"
    /\ Len(sent.headers) = 2
    /\ sent.headers[1] = sent.headers[2]

(***************************************************************************)
(* Properties of the HTTP front end.                                       *)
(***************************************************************************)
\* C21: handleRaw answers 400 without calling the client when the addr
\* parameter is missing or empty; 502 when the client returns a transport
\* error; 502 with the protocol status and detail when the status of the
\* response is not a success status; otherwise 200 with the body of the
\* response and its content-type header, or text/plain when that header is
\* absent or empty.
C21_RawOutcomes ==
    hrsp # NoHTTP =>
        LET success ==
                reply.Status \in {"ok", "created", "accepted", "no_content"}
            named == {i \in 1..Len(reply.Headers) :
                          reply.Headers[i][1] = "content-type"}
            first == CHOOSE i \in named : \A j \in named : i <= j
        IN  IF target = <<>>
            THEN /\ hrsp.code = 400
                 /\ derr = UnsetError
                 /\ response = NoResp
            ELSE IF derr # NilError
            THEN /\ derr.kind = "transport"
                 /\ response = NoResp
                 /\ hrsp.code = 502
                 /\ hrsp.status = ""
            ELSE IF ~success
            THEN /\ hrsp.code = 502
                 /\ hrsp.status = reply.Status
                 /\ hrsp.detail = reply.StatusDetails
            ELSE /\ hrsp.code = 200
                 /\ hrsp.body = reply.Body
                 /\ hrsp.ctype =
                        IF named # {} /\ reply.Headers[first][2] # <<>>
                        THEN reply.Headers[first][2]
                        ELSE TextPlain

\* A success reply with a body and a content-type header was relayed.
C21_Witness ==
    /\ hrsp.code = 200
    /\ hrsp.body # NoBody
    /\ hrsp.ctype = <<"text/html">>
    /\ target # <<>>

(***************************************************************************)
(* Further properties of the connection pool.                              *)
(***************************************************************************)
\* C22: every connection stored in the pool map is open; the map never
\* holds a closed connection.
C22_StoredAreOpen ==
    \A k \in Keys :
        conns[k] # NoConn =>
            /\ clients[conns[k]].st = "open"
            /\ clients[conns[k]].dialed
            /\ clients[conns[k]].closes = 0

\* A connection is stored while a remove is about to close the connection
\* it took out of the map, and an earlier connection has been closed.
C22_Witness ==
    \E k \in Keys :
        /\ conns[k] # NoConn
        /\ \E p \in Procs :
               /\ pc[p] = "rm_close"
               /\ removed[p] # conns[k]
               /\ clients[removed[p]].st = "open"
        /\ \E c \in ConnIds : clients[c].st = "closed" /\ clients[c].dialed

\* C23: under every interleaving of Do and Close calls on one Client, the
\* connection get returned is still open when Do issues the exchange on it.
C23_ExchangeOnOpenConnection ==
    \A p \in Procs :
        pc[p] = "fetch" => clients[got[p].conn].st = "open"

\* C24: once Close has returned and every Do that was in flight has
\* finished, the pool map is empty and every connection the pool ever dialed
\* has been closed.
C24_NoLeakAfterClose ==
    (life = "closed" /\ \A p \in Procs : pc[p] = "idle") =>
        /\ \A k \in Keys : conns[k] = NoConn
        /\ \A c \in ConnIds : clients[c].dialed => clients[c].st = "closed"

\* C26: under every interleaving of get, remove and closeAll, each dialed
\* connection is closed at most once, whether as a loser's discarded
\* connection, a removed entry or an entry swept by closeAll.
C26_ClosedAtMostOnce ==
    \A c \in ConnIds :
        /\ clients[c].closes <= 1
        /\ (clients[c].dialed /\ clients[c].st = "closed") =>
               clients[c].closes = 1

\* closeAll is sweeping its snapshot while a remove is about to close the
\* connection it took out, and a dialed connection has been closed already.
C26_Witness ==
    /\ \E p \in Procs : pc[p] = "ca_close" /\ snap[p] # {}
    /\ \E p \in Procs : pc[p] = "rm_close"
    /\ \E c \in ConnIds :
           clients[c].dialed /\ clients[c].st = "closed" /\ clients[c].closes = 1

\* The positions of get, remove and closeAll at which the lock is held.
Locked == {"get_check1", "get_check2", "rm_check", "ca_swap"}

\* The positions at which a connection is being dialed or closed.
Engine == {"get_dial", "get_discard", "rm_close", "ca_close"}

\* The positions inside get, inside remove and inside closeAll (and the rest
\* of Close).
GetPositions ==
    {"get_check1", "get_dial", "get_lock2", "get_check2", "get_discard"}
RemovePositions == {"rm_check", "rm_close"}
CloseAllPositions == {"ca_swap", "ca_close"}

\* The lock is held only at the locked positions: it has been released on
\* every path out of them, and is not held during a dial or a close.
LockDiscipline ==
    /\ mu \in Procs => pc[mu] \in Locked
    /\ \A p \in Procs : pc[p] \in Locked => mu = p
    /\ \A p \in Procs : pc[p] \in Engine \cup {"idle", "fetch"} => mu # p

\* While p is dialing, any other caller that wants the lock can take it at
\* once, unless a third caller (never p) holds it at a locked position.
DialBlocksNobody ==
    \A p \in Procs : pc[p] = "get_dial" =>
        \A q \in Procs \ {p} :
            /\ pc[q] = "get_lock2" =>
                   (ENABLED GetLock2(q)) \/ mu \in Procs \ {p, q}
            /\ pc[q] = "fetch" =>
                   (ENABLED FetchFails(q)) \/ mu \in Procs \ {p, q}
            /\ pc[q] \in Locked \cup (Engine \ {"get_dial"}) =>
                   ENABLED PoolStep(q)

\* C27: the pool lock is released on every path of get, remove and closeAll
\* and is never held while a connection is dialed or closed; under a fair
\* scheduler, with dials and closes that return, every get, remove and
\* closeAll in progress completes; a dial in progress never keeps another
\* caller's pool operation from taking its next step.
C27_LockReleasedAndProgress ==
    /\ []LockDiscipline
    /\ []DialBlocksNobody
    /\ \A p \in Procs :
           /\ (pc[p] \in GetPositions) ~> (pc[p] \in {"fetch", "idle"})
           /\ (pc[p] \in RemovePositions) ~> (pc[p] = "idle")
           /\ (pc[p] \in CloseAllPositions) ~> (pc[p] = "idle" /\ life = "closed")

\* One caller is dialing for one address while the other, whose dial for
\* another address has returned, waits for the lock of its second look.
C27_Witness ==
    \E p, q \in Procs :
        /\ pc[p] = "get_dial"
        /\ pc[q] = "get_lock2"
        /\ key[p] # key[q]
        /\ mu = NoProc

(***************************************************************************)
(* Further properties of the package-level default client.                 *)
(***************************************************************************)
\* C25: when the last Close has returned (no call is in progress and the
\* last write of defaultClient was Close's), every client Init created has
\* been closed.
C25_InitClientsClosed ==
    (lastSet = "Close" /\ \A p \in Procs : fpc[p] = "idle") =>
        \A i \in ClientIds : made[i] # "open"

====
